---- MODULE Spec2Model ----
(***************************************************************************)
(* BambooHR connector (backend/onyx/connectors/bamboohr): the filters, the *)
(* document builders, the category fetches and the poll_source generator,  *)
(* as a state machine over a remote whose answers are fixed per behaviour. *)
(*                                                                         *)
(* Python values are modelled as strings: a JSON string is itself, a key   *)
(* that is missing from a mapping is ABSENT, a JSON null is NULL, and a    *)
(* JSON number is one of IntVals.  Polymorphic fields (type, status) are   *)
(* records with a shape tag.  Time is counted in days: the epoch value of  *)
(* "2024-01-0d" is d.                                                      *)
(***************************************************************************)
EXTENDS Integers, Sequences, FiniteSets, TLC

VARIABLES
    cfg,              \* the connector's attributes (connector.py 78-90)
    world,            \* what the remote answers to each request, and the
                      \* windows the host may pass to poll_source
    bamboohr_client,  \* TRUE once load_credentials has set the client
    pc,               \* position of the caller / of the generator body
    entry,            \* which entry point was called
    start, end,       \* the arguments of poll_source
    employee_docs,    \* poll_source's employee_docs
    docs,             \* the list the current batching loop slices
    docs_cat,         \* the sub-phase docs belongs to
    docs_owner,       \* for employee files, the position of their employee
    i,                \* the current batching loop's range index
    emp_idx,          \* position of the employee-files loop in employee_docs
    yielded,          \* batches handed to the consumer, in order
    trace,            \* remote requests, sleeps and yields, in order
    error,            \* the exception the consumer got, "none" if none
    probe             \* input and results of one direct filter/builder call

vars == <<cfg, world, bamboohr_client, pc, entry, start, end, employee_docs,
          docs, docs_cat, docs_owner, i, emp_idx, yielded, trace, error, probe>>

----------------------------------------------------------------------------
(* Bounds of the model *)

MaxEmployees == 3
MaxTimeOff == 3
MaxBatch == 3

----------------------------------------------------------------------------
(* Python values *)

ABSENT == "<absent>"
NULL == "<null>"
IntVals == {"20240101"}
NoneT == [some |-> FALSE, t |-> 0]

SomeT(n) == [some |-> TRUE, t |-> n]

\* bool(v) of a scalar
Truthy(v) == v \notin {ABSENT, NULL, ""}

\* mapping.get(key)
Get(v) == IF v = ABSENT THEN NULL ELSE v

\* mapping.get(key, default)
GetD(v, d) == IF v = ABSENT THEN d ELSE v

\* str(v)
Str(v) == IF v = NULL THEN "None" ELSE v

\* v or d
OrElse(v, d) == IF Truthy(v) THEN v ELSE d

\* isinstance(v, str) of a scalar that is present
IsStr(v) == v \notin ({ABSENT, NULL} \cup IntVals)

\* a result or the exception raised instead of it
Ok(v) == [exc |-> "none", v |-> v]
Raise(e) == [exc |-> e, v |-> 0]

----------------------------------------------------------------------------
(* Dates *)

YmdStrs == {"2024-01-01", "2024-01-02", "2024-01-03"}
IsoStrs == {"2024-01-01T00:00:00Z", "2024-01-02T00:00:00Z", "2024-01-03T00:00:00Z"}

YmdDay(d) == <<"2024-01-01", "2024-01-02", "2024-01-03">>[d]
IsoDay(d) == <<"2024-01-01T00:00:00Z", "2024-01-02T00:00:00Z", "2024-01-03T00:00:00Z">>[d]

DayOf(s) ==
    CASE s \in {"2024-01-01", "2024-01-01T00:00:00Z"} -> 1
      [] s \in {"2024-01-02", "2024-01-02T00:00:00Z"} -> 2
      [] s \in {"2024-01-03", "2024-01-03T00:00:00Z"} -> 3
      [] OTHER -> 0

\* datetime.strptime(v, "%Y-%m-%d"): TypeError unless v is a str, ValueError
\* unless the whole string has the format
strptime_ymd(v) ==
    IF ~IsStr(v) THEN Raise("TypeError")
    ELSE IF v \in YmdStrs THEN Ok(DayOf(v))
    ELSE Raise("ValueError")

\* time_str_to_utc(s): the flexible parse of a timestamp string to UTC epoch
time_str_to_utc(s) ==
    IF s \in YmdStrs \cup IsoStrs THEN Ok(DayOf(s)) ELSE Raise("ValueError")

\* datetime.strptime(cutoff, "%Y-%m-%d").timestamp()
cutoff_timestamp(cutoff) == strptime_ymd(cutoff)

----------------------------------------------------------------------------
(* Inclusion filters.  c is the connector's configuration; a filter        *)
(* returns Ok(boolean) or the exception that leaves it.                    *)

\* details.get(...) on a detail response that is not a mapping
NotMapping(details) == details.shape # "dict"

should_include_employee(c, employee, details) ==
    IF c.indexing_scope = "everything" THEN Ok(TRUE)
    ELSE IF c.departments # {} /\ Get(employee.department) \notin c.departments
    THEN Ok(FALSE)
    ELSE IF c.job_titles # {} /\ Get(employee.jobTitle) \notin c.job_titles
    THEN Ok(FALSE)
    ELSE IF c.employment_status # {} /\ NotMapping(details)
    THEN Raise("AttributeError")
    ELSE IF c.employment_status # {} /\ Get(details.status) \notin c.employment_status
    THEN Ok(FALSE)
    ELSE IF Truthy(c.hire_date_after) /\ NotMapping(details)
    THEN Raise("AttributeError")
    ELSE IF Truthy(c.hire_date_after) /\ Truthy(Get(details.hireDate))
    THEN LET hire_date == strptime_ymd(details.hireDate)
             filter_date == strptime_ymd(c.hire_date_after)
         IN  IF hire_date.exc = "TypeError" THEN Raise("TypeError")
             ELSE IF hire_date.exc = "ValueError" THEN Ok(TRUE)
             ELSE IF filter_date.exc = "TypeError" THEN Raise("TypeError")
             ELSE IF filter_date.exc = "ValueError" THEN Ok(TRUE)
             ELSE Ok(~(hire_date.v < filter_date.v))
    ELSE Ok(TRUE)

\* mutant: the category allow-list is consulted before the scope
should_include_file_ListFirst(c, file_data) ==
    IF ~c.include_files THEN Ok(FALSE)
    ELSE IF c.file_categories # {} /\ Get(file_data.category) \notin c.file_categories
    THEN Ok(FALSE)
    ELSE Ok(TRUE)

\* mutant: the updated_since cutoff is not applied to files
should_include_file_NoCutoff(c, file_data) ==
    IF ~c.include_files THEN Ok(FALSE)
    ELSE IF c.indexing_scope = "everything" THEN Ok(TRUE)
    ELSE IF c.file_categories # {} /\ Get(file_data.category) \notin c.file_categories
    THEN Ok(FALSE)
    ELSE Ok(TRUE)

should_include_file(c, file_data) ==
    IF ~c.include_files THEN Ok(FALSE)
    ELSE IF c.indexing_scope = "everything" THEN Ok(TRUE)
    ELSE IF c.file_categories # {} /\ Get(file_data.category) \notin c.file_categories
    THEN Ok(FALSE)
    ELSE IF Truthy(c.updated_since) /\ Truthy(Get(file_data.lastUpdated))
    THEN LET updated_date == time_str_to_utc(Str(file_data.lastUpdated))
             filter_date == cutoff_timestamp(c.updated_since)
         IN  IF updated_date.exc # "none" \/ filter_date.exc # "none"
             THEN Ok(TRUE)
             ELSE Ok(~(updated_date.v < filter_date.v))
    ELSE Ok(TRUE)

\* lines 289-293: the type as the filter extracts it
filter_time_off_type(time_off_data) ==
    IF time_off_data.type.shape = "dict" THEN GetD(time_off_data.type.name, "")
    ELSE IF time_off_data.type.shape = "absent" THEN ""
    ELSE IF time_off_data.type.shape = "null" THEN "None"
    ELSE Str(time_off_data.type.v)

\* mutant: lastModified is consulted before the structured lastChanged
filter_updated_str_ModifiedFirst(time_off_data) ==
    IF Truthy(Get(time_off_data.lastModified))
    THEN Str(time_off_data.lastModified)
    ELSE IF time_off_data.status.shape = "dict"
            /\ time_off_data.status.lastChanged # ABSENT
    THEN Str(time_off_data.status.lastChanged)
    ELSE Str(Get(time_off_data.created))

\* lines 302-308: the string the filter parses as the record's update time
filter_updated_str(time_off_data) ==
    IF time_off_data.status.shape = "dict" /\ time_off_data.status.lastChanged # ABSENT
    THEN Str(time_off_data.status.lastChanged)
    ELSE IF Truthy(Get(time_off_data.lastModified))
    THEN Str(time_off_data.lastModified)
    ELSE Str(Get(time_off_data.created))

should_include_time_off(c, time_off_data) ==
    IF ~c.include_time_off THEN Ok(FALSE)
    ELSE IF c.indexing_scope = "everything" THEN Ok(TRUE)
    ELSE IF c.time_off_types # {}
            /\ filter_time_off_type(time_off_data) \notin c.time_off_types
    THEN Ok(FALSE)
    ELSE IF Truthy(c.updated_since)
    THEN LET updated_date == time_str_to_utc(filter_updated_str(time_off_data))
             filter_date == cutoff_timestamp(c.updated_since)
         IN  IF updated_date.exc # "none" THEN Ok(TRUE)
             ELSE IF updated_date.v = 0 THEN Ok(TRUE)
             ELSE IF filter_date.exc # "none" THEN Ok(TRUE)
             ELSE Ok(~(updated_date.v < filter_date.v))
    ELSE Ok(TRUE)

----------------------------------------------------------------------------
(* Document builders.  company is self.company_name.  A builder returns    *)
(* Ok(document) or the exception that leaves it.                           *)

\* bool(details): a non-empty mapping, or a non-empty list
DetailsTruthy(details) ==
    \/ details.shape = "list"
    \/ \E f \in {"id", "status", "hireDate", "lastChanged", "terminationDate"} :
          details[f] # ABSENT

\* f"{first_name} {last_name}".strip()
FullName(first_name, last_name) ==
    IF first_name = "" THEN last_name
    ELSE IF last_name = "" THEN first_name
    ELSE first_name \o " " \o last_name

\* Document(...): doc_updated_at is time_str_to_utc(s) if s else None
Document(id, title, text, metadata, updated_at_str) ==
    LET t == time_str_to_utc(updated_at_str)
    IN  IF updated_at_str \in {NULL, ""}
        THEN Ok([id |-> id, title |-> title, text |-> text, metadata |-> metadata,
                 doc_updated_at |-> NoneT])
        ELSE IF t.exc # "none" THEN Raise(t.exc)
        ELSE Ok([id |-> id, title |-> title, text |-> text, metadata |-> metadata,
                 doc_updated_at |-> SomeT(t.v)])

\* lines 154-169: one text line per field that is present and truthy
FieldLines(pairs) ==
    LET F[k \in 0..Len(pairs)] ==
          IF k = 0 THEN <<>>
          ELSE IF Truthy(pairs[k][2])
               THEN Append(F[k-1], pairs[k][1] \o ": " \o Str(pairs[k][2]))
               ELSE F[k-1]
    IN  F[Len(pairs)]

employee_to_document(company, employee, details) ==
    LET employee_id == Str(GetD(employee.id, ""))
        name == FullName(Str(GetD(employee.firstName, "")),
                         Str(GetD(employee.lastName, "")))
        has == DetailsTruthy(details)
        isdict == details.shape = "dict"
        text == <<"Company: " \o company, "Employee: " \o name, "ID: " \o employee_id>>
                \o FieldLines(<< <<"Jobtitle", employee.jobTitle>>,
                                 <<"Department", employee.department>> >>)
                \o (IF has /\ isdict
                    THEN FieldLines(<< <<"Hiredate", details.hireDate>>,
                                       <<"Status", details.status>>,
                                       <<"Termination Date", details.terminationDate>> >>)
                    ELSE <<>>)
        updated_at_str == IF has /\ isdict /\ details.lastChanged # ABSENT
                          THEN Str(details.lastChanged) ELSE NULL
        metadata == [type |-> "employee",
                     company |-> company,
                     employee_id |-> employee_id,
                     department |-> OrElse(Get(employee.department), ""),
                     job_title |-> OrElse(Get(employee.jobTitle), ""),
                     status |-> IF has THEN OrElse(Get(details.status), "") ELSE "",
                     hire_date |-> IF has THEN OrElse(Get(details.hireDate), "") ELSE "",
                     termination_date |->
                         IF has THEN OrElse(Get(details.terminationDate), "") ELSE ""]
    IN  IF has /\ ~isdict THEN Raise("AttributeError")
        ELSE Document("bamboohr_employee_" \o employee_id,
                      name \o " - " \o company, text, metadata, updated_at_str)

\* mutant: the company is part of the id
file_to_document_CompanyId(company, file_data, content, file_type, owner) ==
    LET file_id == Str(GetD(file_data.id, ""))
        title == Str(GetD(file_data.name, "Untitled"))
        text == <<"Company: " \o company, "File: " \o title>>
                \o FieldLines(<< <<"Owner", owner>>, <<"Category", file_data.category>> >>)
                \o <<"", content>>
        metadata == [type |-> "file",
                     company |-> company,
                     file_type |-> file_type,
                     file_name |-> title,
                     category |-> OrElse(Get(file_data.category), ""),
                     owner |-> OrElse(owner, "")]
        updated_at_str == IF Truthy(Get(file_data.lastUpdated))
                          THEN Str(file_data.lastUpdated) ELSE NULL
    IN  Document("bamboohr_" \o company \o "_" \o file_type \o "_file_" \o file_id,
                 title \o " - " \o company, text, metadata, updated_at_str)

file_to_document(company, file_data, content, file_type, owner) ==
    LET file_id == Str(GetD(file_data.id, ""))
        title == Str(GetD(file_data.name, "Untitled"))
        text == <<"Company: " \o company, "File: " \o title>>
                \o FieldLines(<< <<"Owner", owner>>, <<"Category", file_data.category>> >>)
                \o <<"", content>>
        metadata == [type |-> "file",
                     company |-> company,
                     file_type |-> file_type,
                     file_name |-> title,
                     category |-> OrElse(Get(file_data.category), ""),
                     owner |-> OrElse(owner, "")]
        updated_at_str == IF Truthy(Get(file_data.lastUpdated))
                          THEN Str(file_data.lastUpdated) ELSE NULL
    IN  Document("bamboohr_" \o file_type \o "_file_" \o file_id,
                 title \o " - " \o company, text, metadata, updated_at_str)

\* lines 479-483: the type as the builder extracts it
time_off_type_of(time_off_data) ==
    IF time_off_data.type.shape = "dict" THEN GetD(time_off_data.type.name, "")
    ELSE IF time_off_data.type.shape = "absent" THEN ""
    ELSE IF time_off_data.type.shape = "null" THEN "None"
    ELSE Str(time_off_data.type.v)

\* mutant: a structured status is converted with str() like a plain one
time_off_status_of_Unshaped(time_off_data) ==
    IF time_off_data.status.shape = "absent" THEN ""
    ELSE IF time_off_data.status.shape = "null" THEN "None"
    ELSE IF time_off_data.status.shape = "dict"
    THEN "{'status': '" \o Str(time_off_data.status.status) \o "'}"
    ELSE Str(time_off_data.status.v)

\* lines 510-514: the status as the builder extracts it
time_off_status_of(time_off_data) ==
    IF time_off_data.status.shape = "dict" THEN GetD(time_off_data.status.status, "")
    ELSE IF time_off_data.status.shape = "absent" THEN ""
    ELSE IF time_off_data.status.shape = "null" THEN "None"
    ELSE Str(time_off_data.status.v)

\* mutant: lastModified is read before the structured lastChanged
time_off_updated_at_str_ModifiedFirst(time_off_data) ==
    IF Truthy(Get(time_off_data.lastModified))
    THEN Str(time_off_data.lastModified)
    ELSE IF time_off_data.status.shape = "dict"
            /\ time_off_data.status.lastChanged # ABSENT
    THEN Str(time_off_data.status.lastChanged) ELSE NULL

\* lines 544-548: the string the update timestamp is parsed from
time_off_updated_at_str(time_off_data) ==
    IF time_off_data.status.shape = "dict"
       /\ time_off_data.status.lastChanged # ABSENT
    THEN Str(time_off_data.status.lastChanged)
    ELSE IF Truthy(Get(time_off_data.lastModified))
    THEN Str(time_off_data.lastModified) ELSE NULL

time_off_to_document(company, time_off_data, employee_name) ==
    LET time_off_id == Str(GetD(time_off_data.id, ""))
        employee_id == Str(GetD(time_off_data.employeeId, ""))
        name == IF Truthy(employee_name) THEN employee_name
                ELSE GetD(time_off_data.name, "")
        time_off_type == time_off_type_of(time_off_data)
        title == Str(name) \o " - " \o Str(OrElse(time_off_type, "Time Off"))
        status == time_off_status_of(time_off_data)
        text == <<"Company: " \o company,
                  "Time Off Request: " \o title,
                  "Employee ID: " \o employee_id,
                  "Employee: " \o Str(name),
                  "Type: " \o Str(time_off_type),
                  "Start Date: " \o Str(GetD(time_off_data.start, "")),
                  "End Date: " \o Str(GetD(time_off_data.end, ""))>>
                \o FieldLines(<< <<"Status", status>> >>)
        metadata == [type |-> "time_off",
                     company |-> company,
                     employee_id |-> employee_id,
                     time_off_type |-> time_off_type,
                     status |-> status,
                     start_date |-> OrElse(Get(time_off_data.start), ""),
                     end_date |-> OrElse(Get(time_off_data.end), "")]
        updated_at_str == time_off_updated_at_str(time_off_data)
    IN  Document("bamboohr_time_off_" \o time_off_id,
                 title \o " - " \o company, text, metadata, updated_at_str)

----------------------------------------------------------------------------
(* The remote and the client.  A remote answer is [http, status, body]:    *)
(* http is "ok" (a 2xx response whose parsed body is body), "status" (a    *)
(* non-2xx response with the given status) or "transport" (no response).   *)

Request(what) == [ev |-> "request", what |-> what]
Sleep(secs) == [ev |-> "sleep", what |-> secs]
Yield(cat) == [ev |-> "yield", what |-> cat]

\* client.py 32-57.  with_content_type: the call passes content_type="xml",
\* a keyword get() does not have, so Python raises TypeError at the call and
\* no request is made.  A transport failure is a RequestException whose
\* response attribute exists and is None: reading its status_code raises
\* AttributeError inside the handler.
ClientGet(answer, with_content_type) ==
    IF with_content_type
    THEN [exc |-> "TypeError", status_code |-> "", body |-> answer.body, issued |-> FALSE]
    ELSE IF answer.http = "ok"
    THEN [exc |-> "none", status_code |-> "", body |-> answer.body, issued |-> TRUE]
    ELSE IF answer.http = "status"
    THEN [exc |-> "BambooHRClientRequestFailedError", status_code |-> answer.status,
          body |-> answer.body, issued |-> TRUE]
    ELSE [exc |-> "AttributeError", status_code |-> "", body |-> answer.body,
          issued |-> TRUE]

\* the request a get() call adds to the trace
Issued(r, what) == IF r.issued THEN <<Request(what)>> ELSE <<>>

EmptyDetails ==
    [shape |-> "dict", id |-> ABSENT, status |-> ABSENT, hireDate |-> ABSENT,
     lastChanged |-> ABSENT, terminationDate |-> ABSENT]

\* lines 104-123 (the client is set when this is reached)
fetch_employee_details(w, employee_id) ==
    LET r == ClientGet(w.details[employee_id], FALSE)
    IN  [details |-> IF r.exc = "none" THEN r.body ELSE EmptyDetails,
         events |-> Issued(r, "employees/" \o employee_id)]

----------------------------------------------------------------------------
(* _get_employees_batch *)

\* bool(start) of an optional timestamp
TruthyT(t) == t.some /\ t.t # 0

\* mutant: the updated_since floor is used only in scope "filtered"
filter_time_of_Scoped(c, st) ==
    LET updated_since_time == cutoff_timestamp(c.updated_since)
    IN  IF c.indexing_scope = "everything" THEN st
        ELSE IF ~Truthy(c.updated_since) THEN st
        ELSE IF updated_since_time.exc # "none" THEN st
        ELSE IF ~st.some \/ updated_since_time.v > st.t
        THEN SomeT(updated_since_time.v)
        ELSE st

\* lines 700-714: the filter time, NoneT if there is none
filter_time_of(c, st) ==
    LET updated_since_time == cutoff_timestamp(c.updated_since)
    IN  IF ~Truthy(c.updated_since) THEN st
        ELSE IF updated_since_time.exc # "none" THEN st
        ELSE IF ~st.some \/ updated_since_time.v > st.t
        THEN SomeT(updated_since_time.v)
        ELSE st

\* lines 699-740: "skip" if the time window drops the employee, "keep" if
\* not, or the exception that leaves the block
employee_window(c, st, en, details) ==
    LET filter_time == filter_time_of(c, st)
        last_changed == time_str_to_utc(Str(details.lastChanged))
        lower == (TruthyT(st) \/ Truthy(c.updated_since)) /\ filter_time.some
    IN  IF (lower \/ en.some) /\ NotMapping(details) THEN "AttributeError"
        ELSE IF lower /\ Truthy(Get(details.lastChanged))
                /\ last_changed.exc = "none" /\ last_changed.v < filter_time.t
        THEN "skip"
        ELSE IF en.some /\ Truthy(Get(details.lastChanged))
                /\ last_changed.exc = "none" /\ last_changed.v > en.t
        THEN "skip"
        ELSE "keep"

\* lines 687-751: one pass of the loop body.  acc is [exc, docs, events]
employee_step(c, w, st, en, acc, employee) ==
    LET employee_id == Get(employee.id)
        fetched == fetch_employee_details(w, employee_id)
        details == fetched.details
        events == acc.events \o fetched.events
        include == should_include_employee(c, employee, details)
        window == employee_window(c, st, en, details)
        document == employee_to_document(c.company_name, employee, details)
    IN  IF acc.exc # "none" THEN acc
        ELSE IF ~Truthy(employee_id) THEN acc
        ELSE IF include.exc # "none"
        THEN [exc |-> include.exc, docs |-> acc.docs, events |-> events]
        ELSE IF ~include.v
        THEN [exc |-> "none", docs |-> acc.docs, events |-> events]
        ELSE IF window = "skip"
        THEN [exc |-> "none", docs |-> acc.docs, events |-> events]
        ELSE IF window # "keep"
        THEN [exc |-> window, docs |-> acc.docs, events |-> events]
        ELSE IF document.exc # "none"
        THEN [exc |-> document.exc, docs |-> acc.docs, events |-> events]
        ELSE [exc |-> "none", docs |-> Append(acc.docs, document.v),
              events |-> Append(events, Sleep("0.1"))]

\* lines 679-753: the body of the try block
employees_try(c, w, st, en) ==
    LET r == ClientGet(w.directory, FALSE)
        req == Issued(r, "employees/directory")
        employees == IF r.body.shape = "dict" THEN r.body.employees ELSE <<>>
        Loop[k \in 0..Len(employees)] ==
            IF k = 0 THEN [exc |-> "none", docs |-> <<>>, events |-> req]
            ELSE employee_step(c, w, st, en, Loop[k-1], employees[k])
    IN  IF r.exc # "none" THEN [exc |-> r.exc, docs |-> <<>>, events |-> req]
        ELSE IF r.body.shape = "list"
        THEN [exc |-> "AttributeError", docs |-> <<>>, events |-> req]
        ELSE IF r.body.shape = "null_employees"
        THEN [exc |-> "TypeError", docs |-> <<>>, events |-> req]
        ELSE Loop[Len(employees)]

\* mutant: the exception of the try block is raised again
get_employees_batch_Reraise(c, w, loaded, st, en) ==
    IF ~loaded
    THEN [exc |-> "ConnectorMissingCredentialError", docs |-> <<>>, events |-> <<>>]
    ELSE employees_try(c, w, st, en)

\* lines 670-756: any exception of the try block is logged and the result
\* is the empty list
get_employees_batch(c, w, loaded, st, en) ==
    LET r == employees_try(c, w, st, en)
    IN  IF ~loaded
        THEN [exc |-> "ConnectorMissingCredentialError", docs |-> <<>>, events |-> <<>>]
        ELSE IF r.exc # "none"
        THEN [exc |-> "none", docs |-> <<>>, events |-> r.events]
        ELSE r

----------------------------------------------------------------------------
(* _get_time_off_batch *)

\* lines 586-593 and 636-637: employee_map.get(employee_id), NULL if the id
\* is not in the map; a later directory entry overwrites an earlier one
employee_map_get(employees, employee_id) ==
    LET M[k \in 0..Len(employees)] ==
          IF k = 0 THEN NULL
          ELSE IF employees[k].id # ABSENT /\ Str(employees[k].id) = employee_id
               THEN FullName(Str(GetD(employees[k].firstName, "")),
                             Str(GetD(employees[k].lastName, "")))
               ELSE M[k-1]
    IN  M[Len(employees)]

\* lines 630-648: one pass of the loop body.  acc is [exc, docs, events]
time_off_step(c, employees, acc, record) ==
    LET include == should_include_time_off(c, record)
        employee_id == Str(GetD(record.employeeId, ""))
        employee_name == employee_map_get(employees, employee_id)
        document == time_off_to_document(c.company_name, record, employee_name)
    IN  IF acc.exc # "none" THEN acc
        ELSE IF include.exc # "none"
        THEN [exc |-> include.exc, docs |-> acc.docs, events |-> acc.events]
        ELSE IF ~include.v THEN acc
        ELSE IF document.exc # "none"
        THEN [exc |-> document.exc, docs |-> acc.docs, events |-> acc.events]
        ELSE [exc |-> "none", docs |-> Append(acc.docs, document.v),
              events |-> Append(acc.events, Sleep("0.1"))]

\* lines 584-650: the body of the try block
time_off_try(c, w, employees) ==
    LET r == ClientGet(w.time_off, FALSE)
        req == Issued(r, "time_off/requests")
        time_off_records == IF r.body.shape \in {"list", "dict"}
                            THEN r.body.requests ELSE <<>>
        Loop[k \in 0..Len(time_off_records)] ==
            IF k = 0 THEN [exc |-> "none", docs |-> <<>>, events |-> req]
            ELSE time_off_step(c, employees, Loop[k-1], time_off_records[k])
    IN  IF r.exc # "none" THEN [exc |-> r.exc, docs |-> <<>>, events |-> req]
        ELSE Loop[Len(time_off_records)]

\* lines 578-654
get_time_off_batch(c, w, loaded, employees) ==
    LET r == time_off_try(c, w, employees)
    IN  IF ~loaded \/ ~c.include_time_off
        THEN [exc |-> "none", docs |-> <<>>, events |-> <<>>]
        ELSE IF r.exc # "none"
        THEN [exc |-> "none", docs |-> <<>>, events |-> r.events]
        ELSE r

\* mutant: if the directory request raises, no time-off batch is built
time_off_phase_NoFallback(c, w, loaded) ==
    LET r == ClientGet(w.directory2, FALSE)
        req == IF loaded THEN Issued(r, "employees/directory") ELSE <<>>
        batch == get_time_off_batch(c, w, loaded, r.body.employees)
    IN  IF ~loaded \/ r.exc # "none" \/ r.body.shape # "dict"
        THEN [exc |-> "none", docs |-> <<>>, events |-> req]
        ELSE [exc |-> batch.exc, docs |-> batch.docs, events |-> req \o batch.events]

\* lines 1041-1047 of poll_source: the directory is fetched again for the
\* names; if that raises, the batch is built without names
time_off_phase(c, w, loaded) ==
    LET r == ClientGet(w.directory2, FALSE)
        req == IF loaded THEN Issued(r, "employees/directory") ELSE <<>>
        employees == IF loaded /\ r.exc = "none" /\ r.body.shape = "dict"
                     THEN r.body.employees ELSE <<>>
        batch == get_time_off_batch(c, w, loaded, employees)
    IN  [exc |-> batch.exc, docs |-> batch.docs, events |-> req \o batch.events]

----------------------------------------------------------------------------
(* File manifests: _parse_*_files_xml, _get_employee_files and            *)
(* _get_company_files_batch                                                *)

\* lines 331-362 and 374-404: a manifest that is not well-formed XML parses
\* to the empty list; employee_id is ABSENT for the company manifest
parse_files_xml(xml, employee_id) ==
    IF ~xml.wellformed THEN <<>>
    ELSE [k \in 1..Len(xml.files) |->
            [id |-> xml.files[k].id,
             name |-> xml.files[k].name,
             category |-> xml.files[k].category,
             categoryId |-> xml.files[k].categoryId,
             lastUpdated |-> xml.files[k].createdDate,
             employeeId |-> employee_id]]

\* lines 797-821 and 906-930: whether the date window keeps the file
file_in_window(st, en, file_data) ==
    LET file_date == time_str_to_utc(Str(file_data.lastUpdated))
    IN  \/ file_date.exc # "none"
        \/ ~ \/ st.some /\ file_date.v < st.t
             \/ en.some /\ file_date.v > en.t

\* lines 835-847: the text of a download
content_of(body) ==
    IF body.shape \in {"str", "dict"} THEN body.content ELSE "{}"

\* lines 824-864 and 933-972: one pass of the loop body.  acc is
\* [docs, events]; a failure of the download or of the build skips the file
file_step(c, w, st, en, acc, file_data, file_type, owner) ==
    LET include == should_include_file(c, file_data)
        file_id == Get(file_data.id)
        r == ClientGet(w.downloads[file_id], FALSE)
        events == acc.events \o Issued(r, "files/" \o Str(file_id) \o "/download")
        document == file_to_document(c.company_name, file_data, content_of(r.body),
                                     file_type, owner)
    IN  IF ~file_in_window(st, en, file_data) THEN acc
        ELSE IF ~include.v THEN acc
        ELSE IF r.exc # "none" THEN [docs |-> acc.docs, events |-> events]
        ELSE IF document.exc # "none" THEN [docs |-> acc.docs, events |-> events]
        ELSE [docs |-> Append(acc.docs, document.v),
              events |-> Append(events, Sleep("0.1"))]

\* lines 781-869 and 890-977: the manifest request, with the keyword
\* content_type="xml", then the files of the manifest
files_of_manifest(c, w, st, en, answer, what, employee_id, file_type, owner) ==
    LET r == ClientGet(answer, TRUE)
        req == Issued(r, what)
        files == IF r.body.shape = "str" THEN parse_files_xml(r.body, employee_id)
                 ELSE <<>>
        Loop[k \in 0..Len(files)] ==
            IF k = 0 THEN [docs |-> <<>>, events |-> req]
            ELSE file_step(c, w, st, en, Loop[k-1], files[k], file_type, owner)
    IN  IF r.exc # "none" THEN [docs |-> <<>>, events |-> req]
        ELSE Loop[Len(files)]

\* lines 776-869
get_employee_files(c, w, loaded, employee_id, employee_name, st, en) ==
    IF ~loaded \/ ~c.include_files THEN [docs |-> <<>>, events |-> <<>>]
    ELSE files_of_manifest(c, w, st, en, w.employee_files[employee_id],
                           "employees/" \o employee_id \o "/files/view",
                           employee_id, "employee", employee_name)

\* lines 885-977
get_company_files_batch(c, w, loaded, st, en) ==
    IF ~loaded \/ ~c.include_files THEN [docs |-> <<>>, events |-> <<>>]
    ELSE files_of_manifest(c, w, st, en, w.company_files, "files/view",
                           ABSENT, "company", NULL)

----------------------------------------------------------------------------
(* poll_source: the generator body, one action per call it makes and one   *)
(* per yield                                                               *)

Min(a, b) == IF a < b THEN a ELSE b

\* mutant: the slice is one short, docs[i:i+batch_size-1]
batch_at_Short(d, k, batch_size) == SubSeq(d, k + 1, Min(k + batch_size, Len(d)) - 1)

\* lines 1009-1010 (and 1023-1024, 1035-1036, 1050-1051): docs[i:i+batch_size]
batch_at(d, k, batch_size) == SubSeq(d, k + 1, Min(k + batch_size, Len(d)))

\* the next value of range(0, len(docs), batch_size)
next_index(k, batch_size) == k + batch_size

\* mutant: after the company files the company manifest is fetched again
after_company_Retry(c) == [pc |-> "company", emp_idx |-> 0, events |-> <<>>]

\* line 1039 on: what follows the company files
after_company(c) ==
    [pc |-> IF c.include_time_off THEN "time_off" ELSE "done",
     emp_idx |-> 0, events |-> <<>>]

\* line 1030 on: what follows the block guarded by "if employee_docs"
after_employees(c) ==
    IF c.include_files THEN [pc |-> "company", emp_idx |-> 0, events |-> <<>>]
    ELSE after_company(c)

\* mutant: after the time-off batches the employees are fetched and
\* yielded once more
after_loop_Again(c, cat, k, edocs) ==
    IF cat = "employees"
    THEN IF c.include_files THEN [pc |-> "files", emp_idx |-> 1, events |-> <<>>]
         ELSE after_employees(c)
    ELSE IF cat = "employee_files"
    THEN IF k < Len(edocs)
         THEN [pc |-> "files", emp_idx |-> k + 1, events |-> <<Sleep("0.2")>>]
         ELSE [pc |-> after_employees(c).pc, emp_idx |-> 0,
               events |-> <<Sleep("0.2")>>]
    ELSE IF cat = "company_files" THEN after_company(c)
    ELSE [pc |-> "created", emp_idx |-> 0, events |-> <<>>]

\* where the generator goes when the batching loop of sub-phase cat is
\* exhausted; k is the position of the employee-files loop
after_loop(c, cat, k, edocs) ==
    IF cat = "employees"
    THEN IF c.include_files THEN [pc |-> "files", emp_idx |-> 1, events |-> <<>>]
         ELSE after_employees(c)
    ELSE IF cat = "employee_files"
    THEN IF k < Len(edocs)
         THEN [pc |-> "files", emp_idx |-> k + 1, events |-> <<Sleep("0.2")>>]
         ELSE [pc |-> after_employees(c).pc, emp_idx |-> 0,
               events |-> <<Sleep("0.2")>>]
    ELSE IF cat = "company_files" THEN after_company(c)
    ELSE [pc |-> "done", emp_idx |-> 0, events |-> <<>>]

\* a batching loop over d begins: suspended at its first yield if d is not
\* empty, past the loop if it is
EnterLoop(d, cat, k, edocs, events) ==
    LET nxt == after_loop(cfg, cat, k, edocs)
    IN  IF Len(d) > 0
        THEN /\ pc' = "emit"
             /\ docs' = d
             /\ docs_cat' = cat
             /\ docs_owner' = k
             /\ i' = 0
             /\ emp_idx' = k
             /\ trace' = trace \o events
        ELSE /\ pc' = nxt.pc
             /\ docs' = <<>>
             /\ docs_cat' = cat
             /\ docs_owner' = k
             /\ i' = 0
             /\ emp_idx' = nxt.emp_idx
             /\ trace' = trace \o events \o nxt.events

\* lines 92-102
LoadCredentials ==
    /\ pc = "idle"
    /\ ~bamboohr_client
    /\ bamboohr_client' = TRUE
    /\ cfg' = [cfg EXCEPT !.company_name = "acme"]
    /\ UNCHANGED <<world, pc, entry, start, end, employee_docs, docs, docs_cat, docs_owner, i,
                   emp_idx, yielded, trace, error, probe>>

\* lines 979-988: an ordinary function, the check runs at the call
LoadFromState ==
    /\ pc = "idle"
    /\ entry' = "load_from_state"
    /\ IF ~bamboohr_client
       THEN pc' = "raised" /\ error' = "ConnectorMissingCredentialError"
       ELSE pc' = "created" /\ error' = error
    /\ start' = NoneT
    /\ end' = NoneT
    /\ UNCHANGED <<cfg, world, bamboohr_client, employee_docs, docs, docs_cat, docs_owner, i,
                   emp_idx, yielded, trace, probe>>

\* lines 990-992: calling a generator function runs none of its body
PollSource ==
    /\ pc = "idle"
    /\ \E win \in world.windows : start' = win[1] /\ end' = win[2]
    /\ entry' = "poll_source"
    /\ pc' = "created"
    /\ UNCHANGED <<cfg, world, bamboohr_client, employee_docs, docs, docs_cat, docs_owner, i,
                   emp_idx, yielded, trace, error, probe>>

\* mutant: a missing client gives an empty result, as in the other fetches
poll_source_entry_Swallow(c, w, loaded, st, en) ==
    IF ~loaded THEN [exc |-> "none", docs |-> <<>>, events |-> <<>>]
    ELSE get_employees_batch(c, w, loaded, st, en)

\* lines 1002-1006: the client check of poll_source, then _get_employees_batch
poll_source_entry(c, w, loaded, st, en) ==
    IF ~loaded
    THEN [exc |-> "ConnectorMissingCredentialError", docs |-> <<>>, events |-> <<>>]
    ELSE get_employees_batch(c, w, loaded, st, en)

\* lines 1002-1007: the first request for a batch runs the generator body up
\* to the test of employee_docs
FetchEmployees ==
    LET r == poll_source_entry(cfg, world, bamboohr_client, start, end)
        nxt == after_employees(cfg)
    IN  /\ pc = "created"
        /\ IF r.exc # "none"
           THEN /\ pc' = "raised"
                /\ error' = r.exc
                /\ UNCHANGED <<employee_docs, docs, docs_cat, docs_owner, i, emp_idx, trace>>
           ELSE /\ error' = error
                /\ employee_docs' = r.docs
                /\ IF Len(r.docs) > 0
                   THEN EnterLoop(r.docs, "employees", 0, r.docs, r.events)
                   ELSE /\ pc' = nxt.pc
                        /\ trace' = trace \o r.events
                        /\ UNCHANGED <<docs, docs_cat, docs_owner, i, emp_idx>>
        /\ UNCHANGED <<cfg, world, bamboohr_client, entry, start, end, yielded, probe>>

\* a yield of one of the four batching loops, and the loop's next test
YieldBatch ==
    LET batch == batch_at(docs, i, cfg.batch_size)
        nxt == after_loop(cfg, docs_cat, emp_idx, employee_docs)
        more == next_index(i, cfg.batch_size) < Len(docs)
    IN  /\ pc = "emit"
        /\ yielded' = Append(yielded, [cat |-> docs_cat, owner |-> docs_owner,
                                       docs |-> batch])
        /\ i' = next_index(i, cfg.batch_size)
        /\ pc' = IF more THEN "emit" ELSE nxt.pc
        /\ emp_idx' = IF more THEN emp_idx ELSE nxt.emp_idx
        /\ trace' = trace \o <<Yield(docs_cat)>> \o (IF more THEN <<>> ELSE nxt.events)
        /\ UNCHANGED <<cfg, world, bamboohr_client, entry, start, end, employee_docs,
                       docs, docs_cat, docs_owner, error, probe>>

\* lines 1015-1028: one pass of the loop over employee_docs
FetchEmployeeFiles ==
    LET employee_doc == employee_docs[emp_idx]
        employee_id == employee_doc.metadata.employee_id
        r == get_employee_files(cfg, world, bamboohr_client, employee_id,
                                employee_doc.title, start, end)
    IN  /\ pc = "files"
        /\ IF Truthy(employee_id)
           THEN EnterLoop(r.docs, "employee_files", emp_idx, employee_docs, r.events)
           ELSE /\ pc' = IF emp_idx < Len(employee_docs) THEN "files"
                         ELSE after_employees(cfg).pc
                /\ emp_idx' = IF emp_idx < Len(employee_docs) THEN emp_idx + 1 ELSE 0
                /\ UNCHANGED <<docs, docs_cat, docs_owner, i, trace>>
        /\ UNCHANGED <<cfg, world, bamboohr_client, entry, start, end, employee_docs,
                       yielded, error, probe>>

\* lines 1031-1037
FetchCompanyFiles ==
    LET r == get_company_files_batch(cfg, world, bamboohr_client, start, end)
    IN  /\ pc = "company"
        /\ EnterLoop(r.docs, "company_files", 0, employee_docs, r.events)
        /\ UNCHANGED <<cfg, world, bamboohr_client, entry, start, end, employee_docs,
                       yielded, error, probe>>

\* lines 1040-1052
FetchTimeOff ==
    LET r == time_off_phase(cfg, world, bamboohr_client)
    IN  /\ pc = "time_off"
        /\ EnterLoop(r.docs, "time_off", 0, employee_docs, r.events)
        /\ UNCHANGED <<cfg, world, bamboohr_client, entry, start, end, employee_docs,
                       yielded, error, probe>>

----------------------------------------------------------------------------
(* The remotes and configurations the behaviours start from *)

BaseCfg ==
    [batch_size |-> 2, departments |-> {}, job_titles |-> {},
     employment_status |-> {}, file_categories |-> {}, time_off_types |-> {},
     include_files |-> TRUE, include_time_off |-> TRUE, hire_date_after |-> NULL,
     updated_since |-> NULL, indexing_scope |-> "everything", company_name |-> NULL]

OkAns(body) == [http |-> "ok", status |-> "200", body |-> body]
StatusAns(status, body) == [http |-> "status", status |-> status, body |-> body]
TransportAns(body) == [http |-> "transport", status |-> "", body |-> body]

Employee(id, first, last, dept, job) ==
    [id |-> id, firstName |-> first, lastName |-> last, department |-> dept,
     jobTitle |-> job]

EmpA == Employee("1", "Ann", "Lee", "Eng", "Dev")
EmpB == Employee("2", "Bob", "Ray", "Sales", "Rep")
EmpC == Employee("3", "Cy", ABSENT, NULL, ABSENT)
EmpNoId == Employee(ABSENT, "No", "Id", "Eng", "Dev")
EmployeeIds == {"1", "2", "3"}

\* the first n of the directory EmpA, EmpB, EmpC, EmpA, ...
EmpSeq(n) == [k \in 1..n |-> <<EmpA, EmpB, EmpC>>[((k - 1) % 3) + 1]]

DirBody(employees) == [shape |-> "dict", employees |-> employees]
DirList == [shape |-> "list", employees |-> <<>>]
DirNullEmployees == [shape |-> "null_employees", employees |-> <<>>]

DetBody(status, hireDate, lastChanged) ==
    [shape |-> "dict", id |-> "x", status |-> status, hireDate |-> hireDate,
     lastChanged |-> lastChanged, terminationDate |-> NULL]

DetGood(d) == OkAns(DetBody("Active", YmdDay(d), IsoDay(d)))
DetInactive == OkAns(DetBody("Inactive", ABSENT, ABSENT))
DetBadDates == OkAns(DetBody("Active", "not-a-date", "not-a-date"))
DetList == OkAns([DetBody("Active", ABSENT, ABSENT) EXCEPT !.shape = "list"])
DetFail == StatusAns("500", EmptyDetails)
DetTransport == TransportAns(EmptyDetails)

GoodDetails == [id \in EmployeeIds |-> DetGood(2)]

TypeVal(shape, v, name) == [shape |-> shape, v |-> v, name |-> name]
StatusVal(shape, v, status, lastChanged) ==
    [shape |-> shape, v |-> v, status |-> status, lastChanged |-> lastChanged]

TimeOff(id, employeeId, type, status, lastModified) ==
    [id |-> id, employeeId |-> employeeId, name |-> "Rec Name", type |-> type,
     status |-> status, lastModified |-> lastModified, created |-> "2024-01-01",
     start |-> "2024-01-02", end |-> "2024-01-03"]

\* scalar type and status
TOffScalar ==
    TimeOff("10", "1", TypeVal("scalar", "Vacation", ABSENT),
            StatusVal("scalar", "approved", ABSENT, ABSENT), "2024-01-02")
\* structured type and status
TOffDict ==
    TimeOff("11", "2", TypeVal("dict", ABSENT, "Sick"),
            StatusVal("dict", ABSENT, "approved", "2024-01-02T00:00:00Z"), "2024-01-01")
\* structured type and status whose inner name and status are null
TOffNullInner ==
    TimeOff("12", "9", TypeVal("dict", ABSENT, NULL),
            StatusVal("dict", ABSENT, NULL, ABSENT), ABSENT)
\* no type, no status, an unparseable lastModified
TOffBadDate ==
    [TimeOff("13", "1", TypeVal("absent", ABSENT, ABSENT),
             StatusVal("absent", ABSENT, ABSENT, ABSENT), "not-a-date")
     EXCEPT !.start = NULL, !.end = ABSENT]

\* the first n of the list TOffScalar, TOffDict, TOffScalar, ...
TimeOffSeq(n) == [k \in 1..n |-> <<TOffScalar, TOffDict>>[((k - 1) % 2) + 1]]

TOffBody(shape, requests) == [shape |-> shape, requests |-> requests]

XmlFile(id, name, category, createdDate) ==
    [id |-> id, name |-> name, category |-> category, categoryId |-> "7",
     createdDate |-> createdDate]

Manifest(files) == OkAns([shape |-> "str", wellformed |-> TRUE, files |-> files])

FileIds == {"f1", "f2", "f3"}

Download == OkAns([shape |-> "str", content |-> "text"])

NoWindow == {<<NoneT, NoneT>>}

World(directory, directory2, details, time_off, windows) ==
    [directory |-> directory, directory2 |-> directory2, details |-> details,
     time_off |-> time_off,
     employee_files |->
         [id \in EmployeeIds |->
             Manifest(<<XmlFile("f1", "offer.pdf", "Contracts", "2024-01-01T00:00:00Z")>>)],
     company_files |->
         Manifest(<<XmlFile("f2", "handbook.pdf", "Policies", "2024-01-02T00:00:00Z")>>),
     downloads |-> [f \in FileIds |-> Download],
     windows |-> windows]

\* batching: directories and time-off lists of every length, every batch size
BatchScenarios ==
    {[cfg |-> [BaseCfg EXCEPT !.batch_size = b, !.include_files = f,
                              !.include_time_off = t],
      world |-> World(OkAns(DirBody(EmpSeq(n))), OkAns(DirBody(EmpSeq(n))),
                      GoodDetails, OkAns(TOffBody("list", TimeOffSeq(m))), NoWindow)] :
        b \in 1..MaxBatch, f \in BOOLEAN, t \in BOOLEAN,
        n \in 0..MaxEmployees, m \in 0..MaxTimeOff}

DirAnswers ==
    {OkAns(DirBody(<<EmpA, EmpB>>)), OkAns(DirBody(<<>>)), OkAns(DirList),
     OkAns(DirNullEmployees), StatusAns("500", DirBody(<<>>)),
     TransportAns(DirBody(<<>>))}

TOffAnswers ==
    {OkAns(TOffBody("dict", <<TOffScalar, TOffDict>>)),
     OkAns(TOffBody("list", <<>>)),
     OkAns(TOffBody("list", <<TOffScalar, TOffBadDate>>)),
     OkAns(TOffBody("other", <<>>)),
     StatusAns("503", TOffBody("list", <<>>)),
     TransportAns(TOffBody("list", <<>>))}

\* failures and malformed bodies of every request
FailScenarios ==
    {[cfg |-> [BaseCfg EXCEPT !.batch_size = b],
      world |-> World(d1, d2, [id \in EmployeeIds |-> IF id = "1" THEN a ELSE DetGood(2)],
                      toff, {<<NoneT, NoneT>>, <<SomeT(2), SomeT(2)>>})] :
        b \in {1, 2}, d1 \in DirAnswers, d2 \in DirAnswers,
        a \in {DetGood(2), DetFail, DetTransport, DetList, DetBadDates},
        toff \in TOffAnswers}

AllowLists ==
    {[departments |-> {}, job_titles |-> {}, employment_status |-> {}],
     [departments |-> {"Eng"}, job_titles |-> {}, employment_status |-> {}],
     [departments |-> {}, job_titles |-> {"Rep"}, employment_status |-> {}],
     [departments |-> {}, job_titles |-> {}, employment_status |-> {"Active"}]}

Cutoffs == {NULL, "2024-01-02", "not-a-date"}

\* the employee filter and the time window
FilterScenarios ==
    {[cfg |-> [BaseCfg EXCEPT !.indexing_scope = sc, !.departments = al.departments,
                              !.job_titles = al.job_titles,
                              !.employment_status = al.employment_status,
                              !.hire_date_after = h, !.updated_since = u,
                              !.include_time_off = FALSE],
      world |-> World(OkAns(DirBody(<<EmpA, EmpNoId, EmpB, EmpC>>)), OkAns(DirBody(<<>>)),
                      [id \in EmployeeIds |->
                          IF id = "1" THEN a ELSE IF id = "2" THEN DetGood(2) ELSE bb],
                      OkAns(TOffBody("list", <<>>)),
                      {<<NoneT, NoneT>>, <<SomeT(2), NoneT>>, <<NoneT, SomeT(2)>>,
                       <<SomeT(3), NoneT>>, <<SomeT(1), SomeT(3)>>})] :
        sc \in {"everything", "filtered"}, al \in AllowLists, h \in Cutoffs,
        u \in Cutoffs,
        a \in {DetGood(1), DetGood(3), DetInactive, DetBadDates, DetFail},
        bb \in {DetGood(2), DetInactive}}

\* the time-off filter and builder
TimeOffScenarios ==
    {[cfg |-> [BaseCfg EXCEPT !.indexing_scope = sc, !.time_off_types = ty,
                              !.updated_since = u, !.include_files = FALSE],
      world |-> World(OkAns(DirBody(<<EmpA>>)), d2, GoodDetails,
                      OkAns(TOffBody(shape, <<r1, r2>>)),
                      {<<NoneT, NoneT>>, <<SomeT(3), NoneT>>})] :
        sc \in {"everything", "filtered"}, ty \in {{}, {"Sick"}}, u \in Cutoffs,
        d2 \in {OkAns(DirBody(<<EmpA, EmpB>>)), StatusAns("500", DirBody(<<>>))},
        shape \in {"list", "dict"},
        r1 \in {TOffScalar, TOffDict, TOffNullInner, TOffBadDate},
        r2 \in {TOffScalar, TOffDict, TOffNullInner}}

\* manifests of several files, one of whose downloads fails
FileScenarios ==
    {[cfg |-> [BaseCfg EXCEPT !.batch_size = b, !.include_time_off = FALSE],
      world |-> [World(OkAns(DirBody(<<EmpA>>)), OkAns(DirBody(<<>>)), GoodDetails,
                       OkAns(TOffBody("list", <<>>)), NoWindow)
                 EXCEPT !.company_files =
                            Manifest(<<XmlFile("f1", "a.pdf", "Policies", "2024-01-01T00:00:00Z"),
                                       XmlFile("f2", "b.pdf", "Policies", "2024-01-02T00:00:00Z"),
                                       XmlFile("f3", "c.pdf", "Forms", "2024-01-03T00:00:00Z")>>),
                        !.employee_files["1"] =
                            Manifest(<<XmlFile("f3", "c.pdf", "Forms", "2024-01-03T00:00:00Z"),
                                       XmlFile("f1", "a.pdf", "Policies", "not-a-date")>>),
                        !.downloads[bad] = dl]] :
        b \in {1, 2}, bad \in FileIds,
        dl \in {StatusAns("500", [shape |-> "str", content |-> ""]),
                TransportAns([shape |-> "str", content |-> ""])}}

Scenarios ==
    BatchScenarios \cup FailScenarios \cup FilterScenarios \cup TimeOffScenarios
    \cup FileScenarios

----------------------------------------------------------------------------
(* The connector as a state machine *)

NoProbe == [stage |-> "none"]

Init ==
    /\ \E s \in Scenarios : cfg = s.cfg /\ world = s.world
    /\ bamboohr_client = FALSE
    /\ pc = "idle"
    /\ entry = "none"
    /\ start = NoneT
    /\ end = NoneT
    /\ employee_docs = <<>>
    /\ docs = <<>>
    /\ docs_cat = "none"
    /\ docs_owner = 0
    /\ i = 0
    /\ emp_idx = 0
    /\ yielded = <<>>
    /\ trace = <<>>
    /\ error = "none"
    /\ probe = NoProbe

Next ==
    \/ LoadCredentials
    \/ LoadFromState
    \/ PollSource
    \/ FetchEmployees
    \/ YieldBatch
    \/ FetchEmployeeFiles
    \/ FetchCompanyFiles
    \/ FetchTimeOff

Spec == Init /\ [][Next]_vars

\* the consumer keeps iterating: a step of the generator that can be taken
\* is eventually taken
ConsumerIterates ==
    /\ WF_vars(FetchEmployees)
    /\ WF_vars(YieldBatch)
    /\ WF_vars(FetchEmployeeFiles)
    /\ WF_vars(FetchCompanyFiles)
    /\ WF_vars(FetchTimeOff)

\* the remotes of the runs whose termination is checked: every outcome of
\* the directory, of the second directory request and of the time-off
\* request, with every combination of the toggles
LiveScenarios ==
    {[cfg |-> [BaseCfg EXCEPT !.batch_size = b, !.include_files = f,
                              !.include_time_off = t],
      world |-> World(d1, d2, GoodDetails, toff, NoWindow)] :
        b \in {1, 2}, f \in BOOLEAN, t \in BOOLEAN,
        d1 \in {OkAns(DirBody(<<EmpA, EmpB>>)), OkAns(DirList),
                StatusAns("500", DirBody(<<>>)), TransportAns(DirBody(<<>>))},
        d2 \in {OkAns(DirBody(<<EmpA, EmpB>>)), StatusAns("500", DirBody(<<>>))},
        toff \in {OkAns(TOffBody("dict", <<TOffScalar, TOffDict>>)),
                  OkAns(TOffBody("list", <<TOffScalar, TOffBadDate>>)),
                  StatusAns("503", TOffBody("list", <<>>))}}

InitLive ==
    /\ \E s \in LiveScenarios : cfg = s.cfg /\ world = s.world
    /\ bamboohr_client = FALSE
    /\ pc = "idle"
    /\ entry = "none"
    /\ start = NoneT
    /\ end = NoneT
    /\ employee_docs = <<>>
    /\ docs = <<>>
    /\ docs_cat = "none"
    /\ docs_owner = 0
    /\ i = 0
    /\ emp_idx = 0
    /\ yielded = <<>>
    /\ trace = <<>>
    /\ error = "none"
    /\ probe = NoProbe

SpecLive == InitLive /\ [][Next]_vars /\ ConsumerIterates

----------------------------------------------------------------------------
(* The inclusion filters on their own: a configuration and a raw record    *)
(* are drawn, and the filter of the record's kind is called once.          *)

Pending == [exc |-> "pending", v |-> FALSE]

ProbeCfgs ==
    {[BaseCfg EXCEPT !.indexing_scope = sc, !.include_files = f,
                     !.include_time_off = t, !.departments = dl,
                     !.employment_status = es, !.file_categories = fc,
                     !.time_off_types = ty, !.hire_date_after = h,
                     !.updated_since = u, !.company_name = "acme"] :
        sc \in {"everything", "filtered"}, f \in BOOLEAN, t \in BOOLEAN,
        dl \in {{}, {"Eng"}}, es \in {{}, {"Active"}}, fc \in {{}, {"Contracts"}},
        ty \in {{}, {"Sick"}}, h \in Cutoffs, u \in Cutoffs}

\* detail mappings with every kind of hireDate: absent, null, a date, an
\* unparseable string, an integer
ProbeDetails ==
    {DetBody(st, h, ABSENT) :
        st \in {"Active", "Inactive"},
        h \in {ABSENT, NULL, "2024-01-01", "2024-01-03", "not-a-date"} \cup IntVals}
    \cup {EmptyDetails}

ProbeFiles ==
    {[id |-> "f1", name |-> "offer.pdf", category |-> cat, categoryId |-> "7",
      lastUpdated |-> u, employeeId |-> "1"] :
        cat \in {"Contracts", "Policies", NULL},
        u \in {NULL, "2024-01-01T00:00:00Z", "2024-01-03T00:00:00Z", "not-a-date"}}

\* time-off records with every combination of the three dates the filter
\* may read
ProbeDatedTimeOff ==
    {[TimeOff("14", "1", TypeVal("scalar", "Vacation", ABSENT), st, lm)
      EXCEPT !.created = cr] :
        st \in {StatusVal("scalar", "approved", ABSENT, ABSENT),
                StatusVal("dict", ABSENT, "approved", "2024-01-01T00:00:00Z"),
                StatusVal("dict", ABSENT, "approved", "2024-01-03T00:00:00Z"),
                StatusVal("dict", ABSENT, "approved", "not-a-date")},
        lm \in {ABSENT, "2024-01-01", "2024-01-03"},
        cr \in {"2024-01-01", "2024-01-03"}}

ProbeTimeOff == {TOffScalar, TOffDict, TOffNullInner, TOffBadDate} \cup ProbeDatedTimeOff

ProbeInputs ==
    {[stage |-> "input", kind |-> "employee", rec |-> e, details |-> d,
      result |-> Pending] : e \in {EmpA, EmpB, EmpC}, d \in ProbeDetails}
    \cup {[stage |-> "input", kind |-> "file", rec |-> f, details |-> EmptyDetails,
           result |-> Pending] : f \in ProbeFiles}
    \cup {[stage |-> "input", kind |-> "time_off", rec |-> r, details |-> EmptyDetails,
           result |-> Pending] : r \in ProbeTimeOff}

InitFilters ==
    /\ cfg \in ProbeCfgs
    /\ world = World(OkAns(DirBody(<<>>)), OkAns(DirBody(<<>>)), GoodDetails,
                     OkAns(TOffBody("list", <<>>)), NoWindow)
    /\ bamboohr_client = TRUE
    /\ pc = "idle"
    /\ entry = "none"
    /\ start = NoneT
    /\ end = NoneT
    /\ employee_docs = <<>>
    /\ docs = <<>>
    /\ docs_cat = "none"
    /\ docs_owner = 0
    /\ i = 0
    /\ emp_idx = 0
    /\ yielded = <<>>
    /\ trace = <<>>
    /\ error = "none"
    /\ probe \in ProbeInputs

Called(result) ==
    /\ probe' = [probe EXCEPT !.stage = "output", !.result = result]
    /\ UNCHANGED <<cfg, world, bamboohr_client, pc, entry, start, end, employee_docs,
                   docs, docs_cat, docs_owner, i, emp_idx, yielded, trace, error>>

ShouldIncludeEmployee ==
    /\ probe.stage = "input"
    /\ probe.kind = "employee"
    /\ Called(should_include_employee(cfg, probe.rec, probe.details))

ShouldIncludeFile ==
    /\ probe.stage = "input"
    /\ probe.kind = "file"
    /\ Called(should_include_file(cfg, probe.rec))

ShouldIncludeTimeOff ==
    /\ probe.stage = "input"
    /\ probe.kind = "time_off"
    /\ Called(should_include_time_off(cfg, probe.rec))

NextFilters ==
    \/ ShouldIncludeEmployee
    \/ ShouldIncludeFile
    \/ ShouldIncludeTimeOff

SpecFilters == InitFilters /\ [][NextFilters]_vars

\* the runs of the connector together with the filters on their own
InitScope == Init \/ InitFilters

\* a run takes its steps only where no filter probe is under way
NextScope ==
    \/ probe.stage = "none" /\ LoadCredentials
    \/ probe.stage = "none" /\ LoadFromState
    \/ probe.stage = "none" /\ PollSource
    \/ probe.stage = "none" /\ FetchEmployees
    \/ probe.stage = "none" /\ YieldBatch
    \/ probe.stage = "none" /\ FetchEmployeeFiles
    \/ probe.stage = "none" /\ FetchCompanyFiles
    \/ probe.stage = "none" /\ FetchTimeOff
    \/ NextFilters

SpecScope == InitScope /\ [][NextScope]_vars

----------------------------------------------------------------------------
(* The document builders on their own: two raw records of one kind are     *)
(* drawn, each with its context, and the builder of the kind is called on  *)
(* each.                                                                   *)

BuildEmployeeInputs ==
    {[rec |-> Employee(id, f, "Lee", d, "Dev"), details |-> det, company |-> co] :
        id \in {"1", "2", ABSENT}, f \in {"Ann", "Bob"}, d \in {"Eng", NULL},
        det \in {EmptyDetails,
                 DetBody("Active", "2024-01-01", "2024-01-02T00:00:00Z"),
                 DetBody("Inactive", NULL, "not-a-date")},
        co \in {"acme", "globex"}}

BuildFileInputs ==
    {[rec |-> [id |-> id, name |-> nm, category |-> cat, categoryId |-> "7",
               lastUpdated |-> "2024-01-01T00:00:00Z", employeeId |-> "1"],
      content |-> "text", file_type |-> ft, owner |-> ow, company |-> co] :
        id \in {"f1", "f2"}, nm \in {"offer.pdf", ABSENT}, cat \in {"Contracts", NULL},
        ft \in {"employee", "company"}, ow \in {NULL, "Ann Lee"},
        co \in {"acme", "globex"}}

BuildTimeOffInputs ==
    {[rec |-> TimeOff(id, "1", ty, st, lm), employee_name |-> en, company |-> "acme"] :
        id \in {"10", "11"},
        ty \in {TypeVal("scalar", "Vacation", ABSENT), TypeVal("dict", ABSENT, "Sick"),
                TypeVal("absent", ABSENT, ABSENT)},
        st \in {StatusVal("scalar", "approved", ABSENT, ABSENT),
                StatusVal("scalar", "denied", ABSENT, ABSENT),
                StatusVal("scalar", "", ABSENT, ABSENT),
                StatusVal("dict", ABSENT, "", ABSENT),
                StatusVal("dict", ABSENT, "approved", "2024-01-02T00:00:00Z"),
                StatusVal("dict", ABSENT, "approved", ABSENT),
                StatusVal("dict", ABSENT, "denied", "not-a-date"),
                StatusVal("absent", ABSENT, ABSENT, ABSENT)},
        lm \in {ABSENT, "2024-01-01"},
        en \in {NULL, "Ann Lee"}}

BuildInputs ==
    {[stage |-> "input", kind |-> "employee", a |-> x, b |-> y,
      da |-> Pending, db |-> Pending] :
        x \in BuildEmployeeInputs, y \in BuildEmployeeInputs}
    \cup {[stage |-> "input", kind |-> "file", a |-> x, b |-> y,
           da |-> Pending, db |-> Pending] :
        x \in BuildFileInputs, y \in BuildFileInputs}
    \cup {[stage |-> "input", kind |-> "time_off", a |-> x, b |-> y,
           da |-> Pending, db |-> Pending] :
        x \in BuildTimeOffInputs, y \in BuildTimeOffInputs}

InitBuilders ==
    /\ cfg = [BaseCfg EXCEPT !.company_name = "acme"]
    /\ world = World(OkAns(DirBody(<<>>)), OkAns(DirBody(<<>>)), GoodDetails,
                     OkAns(TOffBody("list", <<>>)), NoWindow)
    /\ bamboohr_client = TRUE
    /\ pc = "idle"
    /\ entry = "none"
    /\ start = NoneT
    /\ end = NoneT
    /\ employee_docs = <<>>
    /\ docs = <<>>
    /\ docs_cat = "none"
    /\ docs_owner = 0
    /\ i = 0
    /\ emp_idx = 0
    /\ yielded = <<>>
    /\ trace = <<>>
    /\ error = "none"
    /\ probe \in BuildInputs

Built(da, db) ==
    /\ probe' = [probe EXCEPT !.stage = "output", !.da = da, !.db = db]
    /\ UNCHANGED <<cfg, world, bamboohr_client, pc, entry, start, end, employee_docs,
                   docs, docs_cat, docs_owner, i, emp_idx, yielded, trace, error>>

EmployeeToDocument ==
    /\ probe.stage = "input"
    /\ probe.kind = "employee"
    /\ Built(employee_to_document(probe.a.company, probe.a.rec, probe.a.details),
             employee_to_document(probe.b.company, probe.b.rec, probe.b.details))

FileToDocument ==
    /\ probe.stage = "input"
    /\ probe.kind = "file"
    /\ Built(file_to_document(probe.a.company, probe.a.rec, probe.a.content,
                              probe.a.file_type, probe.a.owner),
             file_to_document(probe.b.company, probe.b.rec, probe.b.content,
                              probe.b.file_type, probe.b.owner))

TimeOffToDocument ==
    /\ probe.stage = "input"
    /\ probe.kind = "time_off"
    /\ Built(time_off_to_document(probe.a.company, probe.a.rec, probe.a.employee_name),
             time_off_to_document(probe.b.company, probe.b.rec, probe.b.employee_name))

NextBuilders ==
    \/ EmployeeToDocument
    \/ FileToDocument
    \/ TimeOffToDocument

SpecBuilders == InitBuilders /\ [][NextBuilders]_vars

----------------------------------------------------------------------------
(* validate_connector_settings, called before or after load_credentials    *)

MaxValidations == 2

\* the outcome of one validation: the exception that leaves the call, the
\* client exception it was raised from (__cause__) with its status_code, and
\* the requests made
Validation(exc, r) ==
    [exc |-> exc,
     cause |-> IF exc \in {"none", "ConnectorMissingCredentialError"}
               THEN "none" ELSE r.exc,
     cause_status |-> IF exc \in {"none", "ConnectorMissingCredentialError"}
                      THEN "" ELSE r.status_code,
     events |-> IF exc = "ConnectorMissingCredentialError"
                THEN <<>> ELSE Issued(r, "employees/directory")]

\* mutant: status 403 is not told apart from the other statuses
validate_connector_settings_No403(w, loaded) ==
    LET r == ClientGet(w.directory, FALSE)
    IN  IF ~loaded
        THEN Validation("ConnectorMissingCredentialError", r)
        ELSE IF r.exc = "none"
        THEN Validation("none", r)
        ELSE IF r.exc = "BambooHRClientRequestFailedError" /\ r.status_code = "401"
        THEN Validation("CredentialExpiredError", r)
        ELSE Validation("ConnectorValidationError", r)

\* lines 1054-1086: each raise is "from" the exception the client raised
validate_connector_settings(w, loaded) ==
    LET r == ClientGet(w.directory, FALSE)
    IN  IF ~loaded
        THEN Validation("ConnectorMissingCredentialError", r)
        ELSE IF r.exc = "none"
        THEN Validation("none", r)
        ELSE IF r.exc = "BambooHRClientRequestFailedError" /\ r.status_code = "401"
        THEN Validation("CredentialExpiredError", r)
        ELSE IF r.exc = "BambooHRClientRequestFailedError" /\ r.status_code = "403"
        THEN Validation("InsufficientPermissionsError", r)
        ELSE Validation("ConnectorValidationError", r)

StatusCodes ==
    {"400", "401", "402", "403", "404", "408", "409", "429", "500", "502", "503", "504"}

\* what the remote answers to the validation request
ValidateAnswers ==
    {OkAns(DirBody(<<EmpA>>)), OkAns(DirList), TransportAns(DirBody(<<>>))}
    \cup {StatusAns(st, DirBody(<<>>)) : st \in StatusCodes}

NotValidated ==
    [stage |-> "validate", calls |-> 0, loaded |-> FALSE, exc |-> "pending",
     cause |-> "none", cause_status |-> "", events |-> <<>>]

InitValidate ==
    /\ cfg = BaseCfg
    /\ \E a \in ValidateAnswers :
          world = World(a, OkAns(DirBody(<<>>)), GoodDetails,
                        OkAns(TOffBody("list", <<>>)), NoWindow)
    /\ bamboohr_client = FALSE
    /\ pc = "idle"
    /\ entry = "none"
    /\ start = NoneT
    /\ end = NoneT
    /\ employee_docs = <<>>
    /\ docs = <<>>
    /\ docs_cat = "none"
    /\ docs_owner = 0
    /\ i = 0
    /\ emp_idx = 0
    /\ yielded = <<>>
    /\ trace = <<>>
    /\ error = "none"
    /\ probe = NotValidated

ValidateConnectorSettings ==
    LET r == validate_connector_settings(world, bamboohr_client)
    IN  /\ probe.stage = "validate"
        /\ probe.calls < MaxValidations
        /\ probe' = [stage |-> "validate", calls |-> probe.calls + 1,
                     loaded |-> bamboohr_client, exc |-> r.exc, cause |-> r.cause,
                     cause_status |-> r.cause_status, events |-> r.events]
        /\ UNCHANGED <<cfg, world, bamboohr_client, pc, entry, start, end,
                       employee_docs, docs, docs_cat, docs_owner, i, emp_idx, yielded,
                       trace, error>>

NextValidate ==
    \/ LoadCredentials
    \/ ValidateConnectorSettings

SpecValidate == InitValidate /\ [][NextValidate]_vars

----------------------------------------------------------------------------
(* What a behaviour has produced so far *)

\* the batches yielded for sub-phase cat of employee position owner
BatchesOf(cat, owner) ==
    SelectSeq(yielded, LAMBDA b : b.cat = cat /\ b.owner = owner)

\* the documents of a sequence of batches, in yield order
Flatten(batches) ==
    LET F[k \in 0..Len(batches)] ==
          IF k = 0 THEN <<>> ELSE F[k-1] \o batches[k].docs
    IN  F[Len(batches)]

\* every document yielded for category cat, in yield order
YieldedOf(cat) == Flatten(SelectSeq(yielded, LAMBDA b : b.cat = cat))

\* the remote requests of a sequence of events, in order
RequestsOf(events) ==
    LET R == SelectSeq(events, LAMBDA e : e.ev = "request")
    IN  [k \in 1..Len(R) |-> R[k].what]

\* positions of the trace holding a yield of category cat
YieldsAt(cat) == {k \in 1..Len(trace) : trace[k] = Yield(cat)}

\* positions of the trace holding a request for what
RequestsAt(what) == {k \in 1..Len(trace) : trace[k] = Request(what)}

----------------------------------------------------------------------------
(* C1: in every sub-phase the batches yielded so far, concatenated, are    *)
(* the first documents of the sub-phase's list in their order; when the    *)
(* loop is over they are the whole list; no batch is longer than the batch *)
(* size and every batch but the last of the sub-phase has exactly that     *)
(* size.  The employee batches stay the employee list to the end.          *)
C1_Batching ==
    LET bs == BatchesOf(docs_cat, docs_owner)
    IN  /\ Flatten(bs) = SubSeq(docs, 1, Min(i, Len(docs)))
        /\ pc # "emit" => Flatten(bs) = docs
        /\ \A k \in 1..Len(bs) :
              /\ Len(bs[k].docs) <= cfg.batch_size
              /\ Len(bs[k].docs) >= 1
              /\ k < Len(bs) => Len(bs[k].docs) = cfg.batch_size
        /\ (pc # "emit" \/ docs_cat # "employees")
              => YieldedOf("employees") = employee_docs

\* three employee documents were yielded as a batch of two and a batch of one
C1_Witness ==
    /\ pc = "done"
    /\ cfg.batch_size = 2
    /\ Len(employee_docs) = 3
    /\ Len(BatchesOf("employees", 0)) = 2
    /\ Len(BatchesOf("employees", 0)[2].docs) = 1
    /\ Len(YieldedOf("time_off")) = 3

(* C2: with a client loaded, no step of the generator raises, whatever the *)
(* remote answers: the consumer never gets an exception.                   *)
C2_NeverRaises ==
    bamboohr_client =>
        /\ pc # "raised"
        /\ error = "none"

\* a run ended normally although the directory and the time-off requests
\* failed and the second directory answer was a list
C2_Witness ==
    /\ pc = "done"
    /\ bamboohr_client
    /\ world.directory.http # "ok"
    /\ world.time_off.http # "ok"
    /\ world.directory2.body.shape = "list"

\* the remote with every failed whole-category answer replaced by a
\* successful empty one
Degrade(w) ==
    [w EXCEPT
        !.directory = IF @.http = "ok" THEN @ ELSE OkAns(DirBody(<<>>)),
        !.directory2 = IF @.http = "ok" THEN @ ELSE OkAns(DirBody(<<>>)),
        !.time_off = IF @.http = "ok" THEN @ ELSE OkAns(TOffBody("list", <<>>)),
        !.company_files = IF @.http = "ok" THEN @ ELSE Manifest(<<>>),
        !.employee_files = [id \in EmployeeIds |->
                               IF w.employee_files[id].http = "ok"
                               THEN w.employee_files[id] ELSE Manifest(<<>>)]]

\* the file documents and the events of every employee of edocs, in order,
\* on remote w
AllEmployeeFiles(w, edocs) ==
    LET F[k \in 0..Len(edocs)] ==
          IF k = 0 THEN [docs |-> <<>>, events |-> <<>>]
          ELSE LET r == get_employee_files(cfg, w, TRUE,
                                           edocs[k].metadata.employee_id,
                                           edocs[k].title, start, end)
               IN  [docs |-> F[k-1].docs \o r.docs,
                    events |-> F[k-1].events \o r.events]
    IN  IF cfg.include_files THEN F[Len(edocs)] ELSE [docs |-> <<>>, events |-> <<>>]

(* C3: a run in which whole-category fetches failed ends, without raising, *)
(* having yielded the documents and made the requests that the same run    *)
(* makes on the remote where those fetches succeed with an empty result.   *)
C3_FailureIsEmpty ==
    LET w == Degrade(world)
        emp == get_employees_batch(cfg, w, TRUE, start, end)
        efiles == AllEmployeeFiles(w, emp.docs)
        cfiles == get_company_files_batch(cfg, w, TRUE, start, end)
        toff == IF cfg.include_time_off THEN time_off_phase(cfg, w, TRUE)
                ELSE [docs |-> <<>>, events |-> <<>>]
    IN  /\ bamboohr_client => pc # "raised"
        /\ bamboohr_client /\ pc = "done" =>
              /\ YieldedOf("employees") = emp.docs
              /\ YieldedOf("employee_files") = efiles.docs
              /\ YieldedOf("company_files") = cfiles.docs
              /\ YieldedOf("time_off") = toff.docs
              /\ RequestsOf(trace) =
                    RequestsOf(emp.events \o efiles.events \o cfiles.events
                               \o toff.events)

\* the time-off request and the second directory request failed and the
\* employee documents were yielded all the same
C3_Witness ==
    /\ pc = "done"
    /\ world.time_off.http # "ok"
    /\ world.directory2.http # "ok"
    /\ world.directory.http = "ok"
    /\ Len(YieldedOf("employees")) = 2
    /\ YieldedOf("time_off") = <<>>

Rank(cat) ==
    CASE cat = "employees" -> 1
      [] cat = "employee_files" -> 2
      [] cat = "company_files" -> 3
      [] OTHER -> 4

Categories == {"employees", "employee_files", "company_files", "time_off"}

(* C4: batches are yielded in the order employees, employee files, company *)
(* files, time-off; no file manifest of an employee is requested before    *)
(* the last employee batch, the company manifest not before the last       *)
(* employee-file batch, the time-off request not before the last           *)
(* company-file batch.                                                     *)
C4_CategoryOrder ==
    /\ \A a, b \in Categories :
          Rank(a) < Rank(b) => \A x \in YieldsAt(a), y \in YieldsAt(b) : x < y
    /\ \A k \in 1..Len(trace) :
          trace[k].ev = "request" =>
              /\ trace[k].what = "time_off/requests" =>
                    \A x \in YieldsAt("employees") \cup YieldsAt("employee_files")
                             \cup YieldsAt("company_files") : x < k
              /\ trace[k].what = "files/view" =>
                    \A x \in YieldsAt("employees") \cup YieldsAt("employee_files") : x < k
              /\ trace[k].what \in {"employees/" \o id \o "/files/view" : id \in EmployeeIds}
                    => \A x \in YieldsAt("employees") : x < k
              /\ trace[k].what \in {"employees/" \o id : id \in EmployeeIds} =>
                    \A c \in Categories : \A x \in YieldsAt(c) : k < x

\* employee batches and then time-off batches were yielded
C4_Witness ==
    /\ pc = "done"
    /\ Cardinality(YieldsAt("employees")) >= 2
    /\ Cardinality(YieldsAt("time_off")) >= 2
    /\ RequestsAt("time_off/requests") # {}

(* C5: without a client, load_from_state raises the missing-credential     *)
(* error at the call and poll_source at the first request for a batch: the *)
(* generator is never past its start, nothing was requested or yielded.    *)
C5_MissingCredential ==
    ~bamboohr_client /\ entry # "none" =>
        /\ pc \in {"created", "raised"}
        /\ entry = "load_from_state" => pc = "raised"
        /\ pc = "raised" => error = "ConnectorMissingCredentialError"
        /\ pc = "created" => ENABLED FetchEmployees
        /\ trace = <<>>
        /\ yielded = <<>>

\* poll_source was called without a client and its first step raised
C5_Witness ==
    /\ ~bamboohr_client
    /\ entry = "poll_source"
    /\ pc = "raised"
    /\ error = "ConnectorMissingCredentialError"

\* the manifest requests of the trace, in order
ManifestRequests ==
    SelectSeq(RequestsOf(trace),
              LAMBDA w : w \in {"employees/" \o id \o "/files/view" : id \in EmployeeIds})

\* the files of a manifest answer that the window, the file filter and the
\* download let through
EligibleFiles(answer, employee_id) ==
    LET files == IF answer.http = "ok" /\ answer.body.shape = "str"
                 THEN parse_files_xml(answer.body, employee_id) ELSE <<>>
    IN  {files[k] : k \in {j \in 1..Len(files) :
            /\ file_in_window(start, end, files[j])
            /\ should_include_file(cfg, files[j]) = Ok(TRUE)
            /\ world.downloads[files[j].id].http = "ok"}}

(* C6: at the end of a run with include_files on, the manifest requests    *)
(* made are one per yielded employee document, in emission order, and the  *)
(* company manifest was requested once; every eligible file of an          *)
(* employee's manifest was yielded as bamboohr_employee_file_<id> and      *)
(* every eligible file of the company manifest as                          *)
(* bamboohr_company_file_<id>.                                             *)
C6_FilesFetched ==
    pc = "done" /\ cfg.include_files =>
        /\ ManifestRequests =
              [k \in 1..Len(employee_docs) |->
                  "employees/" \o employee_docs[k].metadata.employee_id
                               \o "/files/view"]
        /\ Cardinality(RequestsAt("files/view")) = 1
        /\ \A k \in 1..Len(employee_docs) :
              LET id == employee_docs[k].metadata.employee_id
              IN  \A f \in EligibleFiles(world.employee_files[id], id) :
                     \E n \in 1..Len(YieldedOf("employee_files")) :
                        YieldedOf("employee_files")[n].id
                            = "bamboohr_employee_file_" \o f.id
        /\ \A f \in EligibleFiles(world.company_files, ABSENT) :
              \E n \in 1..Len(YieldedOf("company_files")) :
                 YieldedOf("company_files")[n].id = "bamboohr_company_file_" \o f.id

(* C7: in scope "everything" the employee filter returns true for every    *)
(* record and configuration; the file filter returns true exactly when     *)
(* include_files is on and the time-off filter exactly when                *)
(* include_time_off is on, whatever the allow-lists and cutoffs are.       *)
C7_EverythingScope ==
    probe.stage = "output" /\ cfg.indexing_scope = "everything" =>
        /\ probe.kind = "employee" => probe.result = Ok(TRUE)
        /\ probe.kind = "file" => probe.result = Ok(cfg.include_files)
        /\ probe.kind = "time_off" => probe.result = Ok(cfg.include_time_off)

\* in scope "everything", with include_files off and a category allow-list
\* the file has, the file filter returned false
C7_Witness ==
    /\ probe.stage = "output"
    /\ probe.kind = "file"
    /\ cfg.indexing_scope = "everything"
    /\ ~cfg.include_files
    /\ cfg.file_categories = {"Contracts"}
    /\ probe.rec.category = "Contracts"
    /\ probe.result = Ok(FALSE)

\* C7 as stated: in scope "everything" each of the three filters returns
\* true for every record, whatever the rest of the configuration is
C7_AlwaysTrue ==
    probe.stage = "output" /\ cfg.indexing_scope = "everything" =>
        probe.result = Ok(TRUE)

\* the directory entries of the run, in order
DirectoryEntries ==
    IF world.directory.http = "ok" /\ world.directory.body.shape = "dict"
    THEN world.directory.body.employees ELSE <<>>

\* the conditions of the filtered scope on a directory entry with an id
MeetsFilters(employee) ==
    LET details == fetch_employee_details(world, employee.id).details
        hire_date == strptime_ymd(Get(details.hireDate))
        filter_date == strptime_ymd(cfg.hire_date_after)
    IN  /\ cfg.departments # {} => Get(employee.department) \in cfg.departments
        /\ cfg.job_titles # {} => Get(employee.jobTitle) \in cfg.job_titles
        /\ cfg.employment_status # {} =>
              details.shape = "dict" /\ Get(details.status) \in cfg.employment_status
        /\ Truthy(cfg.hire_date_after) =>
              ~ /\ details.shape = "dict"
                /\ hire_date.exc = "none"
                /\ filter_date.exc = "none"
                /\ hire_date.v < filter_date.v

(* C8: at the end of a run in scope "filtered", every employee document    *)
(* yielded is that of a directory entry meeting the department, job title, *)
(* status and hire-date conditions; and with no time window and no         *)
(* updated_since every directory entry with an id that meets them has its  *)
(* document bamboohr_employee_<id> among the yielded ones.                 *)
C8_FilteredEmployees ==
    LET E == DirectoryEntries
        Y == YieldedOf("employees")
        WithId == {k \in 1..Len(E) : Truthy(Get(E[k].id))}
    IN  pc = "done" /\ cfg.indexing_scope = "filtered" =>
            /\ \A n \in 1..Len(Y) :
                  \E k \in WithId : /\ Y[n].id = "bamboohr_employee_" \o E[k].id
                                    /\ MeetsFilters(E[k])
            /\ ~start.some /\ ~end.some /\ ~Truthy(cfg.updated_since) =>
                  \A k \in WithId :
                     MeetsFilters(E[k]) =>
                        \E n \in 1..Len(Y) : Y[n].id = "bamboohr_employee_" \o E[k].id

\* the record's date cannot be parsed, or the configured cutoff cannot
BadDate ==
    CASE probe.kind = "employee" ->
            /\ Truthy(cfg.hire_date_after)
            /\ Truthy(Get(probe.details.hireDate))
            /\ \/ strptime_ymd(probe.details.hireDate).exc # "none"
               \/ strptime_ymd(cfg.hire_date_after).exc # "none"
      [] probe.kind = "file" ->
            /\ Truthy(cfg.updated_since)
            /\ Truthy(Get(probe.rec.lastUpdated))
            /\ \/ time_str_to_utc(Str(probe.rec.lastUpdated)).exc # "none"
               \/ strptime_ymd(cfg.updated_since).exc # "none"
      [] OTHER ->
            /\ Truthy(cfg.updated_since)
            /\ \/ time_str_to_utc(filter_updated_str(probe.rec)).exc # "none"
               \/ strptime_ymd(cfg.updated_since).exc # "none"

\* the record passes the criteria of its filter that are not dates
PassesNonDate ==
    CASE probe.kind = "employee" ->
            \/ cfg.indexing_scope = "everything"
            \/ /\ cfg.departments # {} => Get(probe.rec.department) \in cfg.departments
               /\ cfg.job_titles # {} => Get(probe.rec.jobTitle) \in cfg.job_titles
               /\ cfg.employment_status # {} =>
                     Get(probe.details.status) \in cfg.employment_status
      [] probe.kind = "file" ->
            /\ cfg.include_files
            /\ \/ cfg.indexing_scope = "everything"
               \/ cfg.file_categories # {} =>
                     Get(probe.rec.category) \in cfg.file_categories
      [] OTHER ->
            /\ cfg.include_time_off
            /\ \/ cfg.indexing_scope = "everything"
               \/ cfg.time_off_types # {} =>
                     filter_time_off_type(probe.rec) \in cfg.time_off_types

(* C9: no call of an inclusion filter raises, and a record whose date      *)
(* cannot be parsed (or that meets an unparseable cutoff) and that passes  *)
(* the other criteria of its filter is included.                           *)
C9_FiltersFailOpen ==
    probe.stage = "output" =>
        /\ probe.result.exc = "none"
        /\ BadDate /\ PassesNonDate => probe.result = Ok(TRUE)

(* C10: every value of the metadata of every yielded document is a string, *)
(* never null.                                                             *)
C10_MetadataStrings ==
    \A k \in 1..Len(yielded) :
        \A n \in 1..Len(yielded[k].docs) :
            \A f \in DOMAIN yielded[k].docs[n].metadata :
                IsStr(yielded[k].docs[n].metadata[f])

\* both builds of the pair returned a document
BothBuilt ==
    /\ probe.stage = "output"
    /\ probe.da.exc = "none"
    /\ probe.db.exc = "none"

\* the two records are of the same kind (for files: of the same file type)
SameKind == probe.kind = "file" => probe.a.file_type = probe.b.file_type

(* C11: two documents built from records of the same kind with the same    *)
(* natural id have the same id, whatever the other fields and the context  *)
(* are; and two builds from the same record and context return the same    *)
(* id, title and metadata.                                                 *)
C11_IdFromKindAndId ==
    probe.stage = "output" =>
        /\ BothBuilt /\ SameKind /\ probe.a.rec.id = probe.b.rec.id
              => probe.da.v.id = probe.db.v.id
        /\ probe.a = probe.b => probe.da = probe.db

\* two employee records with id "1" that differ in name, department, detail
\* and company were built into documents with the id bamboohr_employee_1
C11_Witness ==
    /\ BothBuilt
    /\ probe.kind = "employee"
    /\ probe.a.rec.id = "1"
    /\ probe.b.rec.id = "1"
    /\ probe.a.rec.firstName # probe.b.rec.firstName
    /\ probe.a.rec.department # probe.b.rec.department
    /\ probe.a.details # probe.b.details
    /\ probe.a.company # probe.b.company
    /\ probe.da.v.id = "bamboohr_employee_1"
    /\ probe.db.v.id = "bamboohr_employee_1"

(* C12: a call of validate_connector_settings without a client raises the  *)
(* missing-credential error and makes no request; with a client it makes   *)
(* exactly one request, returns if the request succeeds, raises            *)
(* CredentialExpiredError on status 401, InsufficientPermissionsError on   *)
(* status 403 and ConnectorValidationError on every other failure.         *)
C12_Validate ==
    LET a == world.directory
    IN  probe.calls > 0 =>
           /\ ~probe.loaded =>
                 /\ probe.exc = "ConnectorMissingCredentialError"
                 /\ probe.events = <<>>
           /\ probe.loaded =>
                 /\ probe.events = <<Request("employees/directory")>>
                 /\ a.http = "ok" => probe.exc = "none"
                 /\ a.http = "status" /\ a.status = "401"
                       => probe.exc = "CredentialExpiredError"
                 /\ a.http = "status" /\ a.status = "403"
                       => probe.exc = "InsufficientPermissionsError"
                 /\ a.http = "status" /\ a.status \notin {"401", "403"}
                       => probe.exc = "ConnectorValidationError"
                 /\ a.http = "transport" => probe.exc = "ConnectorValidationError"

\* a validation with a client met status 403 and raised
\* InsufficientPermissionsError after one request
C12_Witness ==
    /\ probe.calls = 2
    /\ probe.loaded
    /\ world.directory.http = "status"
    /\ world.directory.status = "403"
    /\ probe.exc = "InsufficientPermissionsError"
    /\ Len(probe.events) = 1

\* the employee filter and the time window keep the directory entry
KeptEmployee(employee) ==
    LET details == fetch_employee_details(world, employee.id).details
    IN  /\ should_include_employee(cfg, employee, details) = Ok(TRUE)
        /\ employee_window(cfg, start, end, details) = "keep"

\* the time-off records of the run's time-off response, in order
TimeOffRecords ==
    IF world.time_off.http = "ok" /\ world.time_off.body.shape \in {"list", "dict"}
    THEN world.time_off.body.requests ELSE <<>>

(* C13: at the end of a run in which every detail response is a mapping,   *)
(* every directory entry with an id that the employee filter and the time  *)
(* window keep has its document among the yielded ones, and every time-off *)
(* record the time-off filter keeps has its document among the yielded     *)
(* ones, whether or not a date string of a record is malformed.            *)
C13_MalformedDateLocal ==
    LET E == DirectoryEntries
        Y == YieldedOf("employees")
        T == TimeOffRecords
        Z == YieldedOf("time_off")
    IN  pc = "done" =>
            /\ (\A id \in EmployeeIds : world.details[id].body.shape = "dict") =>
                  \A k \in 1..Len(E) :
                     Truthy(Get(E[k].id)) /\ KeptEmployee(E[k]) =>
                        \E n \in 1..Len(Y) : Y[n].id = "bamboohr_employee_" \o E[k].id
            /\ cfg.include_time_off =>
                  \A k \in 1..Len(T) :
                     should_include_time_off(cfg, T[k]) = Ok(TRUE) =>
                        \E n \in 1..Len(Z) : Z[n].id = "bamboohr_time_off_" \o T[k].id

\* the files of a manifest answer that the window and the file filter let
\* through, in manifest order
Survivors(answer, employee_id) ==
    LET files == IF answer.http = "ok" /\ answer.body.shape = "str"
                 THEN parse_files_xml(answer.body, employee_id) ELSE <<>>
    IN  SelectSeq(files, LAMBDA f : /\ file_in_window(start, end, f)
                                    /\ should_include_file(cfg, f) = Ok(TRUE))

\* the download or the build of the surviving file fails
FileFails(f, file_type, owner) ==
    \/ world.downloads[f.id].http # "ok"
    \/ file_to_document(cfg.company_name, f, content_of(world.downloads[f.id].body),
                        file_type, owner).exc # "none"

\* the ids of a sequence of documents
IdsOf(ds) == [k \in 1..Len(ds) |-> ds[k].id]

\* the download requests of the trace, in order
DownloadRequests ==
    SelectSeq(RequestsOf(trace),
              LAMBDA w : w \in {"files/" \o f \o "/download" : f \in FileIds})

(* C14: at the end of a run with include_files on in which the download or *)
(* the build of a surviving file of the company manifest fails, the        *)
(* company-file documents yielded are those of the other surviving files,  *)
(* in manifest order, and every surviving file of the manifest, the        *)
(* failing one included, had its download requested.                       *)
C14_FileFailureLocal ==
    LET S == Survivors(world.company_files, ABSENT)
        D == SelectSeq(S, LAMBDA f : ~FileFails(f, "company", NULL))
    IN  pc = "done" /\ cfg.include_files /\ Len(D) < Len(S) =>
            /\ IdsOf(YieldedOf("company_files"))
                  = [k \in 1..Len(D) |-> "bamboohr_company_file_" \o D[k].id]
            /\ \A k \in 1..Len(S) :
                  \E n \in 1..Len(DownloadRequests) :
                     DownloadRequests[n] = "files/" \o S[k].id \o "/download"

\* how many requests for what the trace holds
RequestCount(what) == Cardinality(RequestsAt(what))

\* nothing was requested more often than the generator's single pass asks
\* for it, and no more batches were yielded than the remote has records
SinglePass ==
    /\ RequestCount("employees/directory")
          <= 1 + (IF cfg.include_time_off THEN 1 ELSE 0)
    /\ RequestCount("time_off/requests") <= 1
    /\ RequestCount("files/view") <= 1
    /\ \A id \in EmployeeIds :
          /\ world.details[id].http # "ok" => RequestCount("employees/" \o id) <= 1
          /\ RequestCount("employees/" \o id \o "/files/view") <= 1
    /\ Len(BatchesOf("employees", 0)) <= Len(DirectoryEntries)
    /\ Len(BatchesOf("time_off", 0)) <= Len(TimeOffRecords)
    /\ Len(yielded) <= Len(DirectoryEntries) + Len(TimeOffRecords)
                       + Len(employee_docs) + 1

(* C15: once poll_source has been called with a client loaded and the      *)
(* consumer keeps iterating, the generator eventually is exhausted; all    *)
(* along no request is made again after it failed and the batches yielded  *)
(* are no more than the records of the remote; at the end every phase has  *)
(* been passed and the last list of documents has been yielded whole.      *)
C15_Terminates ==
    /\ (pc = "created" /\ bamboohr_client) ~> (pc = "done")
    /\ [](bamboohr_client => SinglePass)
    /\ [](pc = "done" =>
            /\ i >= Len(docs)
            /\ YieldedOf("employees") = employee_docs
            /\ cfg.include_time_off => docs_cat = "time_off"
            /\ cfg.include_files /\ ~cfg.include_time_off
                  => docs_cat = "company_files")

\* a run ended after its directory request and its time-off request had
\* failed, each made once
C15_Witness ==
    /\ pc = "done"
    /\ world.directory.http # "ok"
    /\ world.directory2.http = "ok"
    /\ world.time_off.http # "ok"
    /\ RequestCount("employees/directory") = 2
    /\ RequestCount("time_off/requests") = 1
    /\ yielded = <<>>


(* C16: every failed get raises BambooHRClientRequestFailedError and no     *)
(* other exception, and its status_code is the HTTP status of the response *)
(* or 0 when there was no response.  Seen through the cause of the         *)
(* exception a validation with a client raises.                            *)
C16_TypedClientError ==
    LET a == world.directory
    IN  probe.calls > 0 /\ probe.loaded /\ a.http # "ok" =>
           /\ probe.cause = "BambooHRClientRequestFailedError"
           /\ probe.cause_status = IF a.http = "status" THEN a.status ELSE "0"

\* the time-off statuses the builder inputs carry
StatusStrings == {"approved", "denied", ""}

\* the Status lines of a document's text
StatusLines(doc) ==
    SelectSeq(doc.text, LAMBDA l : l \in {"Status: " \o st : st \in StatusStrings})

\* the two time-off records differ only in the shape of status: a gives the
\* plain string s, b a mapping whose status is s
ShapePair ==
    /\ probe.kind = "time_off"
    /\ probe.a.rec.status.shape = "scalar"
    /\ probe.b.rec.status.shape = "dict"
    /\ probe.b.rec.status.status = probe.a.rec.status.v
    /\ [probe.a EXCEPT !.rec.status = probe.b.rec.status] = probe.b

(* C17: two time-off records that differ only in the shape of status, one  *)
(* giving the plain string s and the other a mapping with status s, are    *)
(* built into documents with the same metadata status and the same Status  *)
(* text line.                                                              *)
C17_StatusShapeInvariant ==
    BothBuilt /\ ShapePair =>
        /\ probe.da.v.metadata.status = probe.a.rec.status.v
        /\ probe.db.v.metadata.status = probe.a.rec.status.v
        /\ StatusLines(probe.da.v) = StatusLines(probe.db.v)
        /\ StatusLines(probe.da.v) =
              IF probe.a.rec.status.v = "" THEN <<>>
              ELSE <<"Status: " \o probe.a.rec.status.v>>

\* a record with status "approved" and the same record with the mapping
\* {status: "approved", lastChanged: ...} were both built, with the status
\* approved and the text line Status: approved
C17_Witness ==
    /\ BothBuilt
    /\ ShapePair
    /\ probe.b.rec.status.lastChanged # ABSENT
    /\ probe.da.v.metadata.status = "approved"
    /\ probe.db.v.metadata.status = "approved"
    /\ StatusLines(probe.db.v) = <<"Status: approved">>

\* side x of the pair is a time-off record with a structured type and a
\* structured status whose lastChanged parses
StructuredTimeOff(x) ==
    /\ probe.kind = "time_off"
    /\ x.rec.type.shape = "dict"
    /\ x.rec.status.shape = "dict"
    /\ x.rec.status.lastChanged \in IsoStrs

\* side x is a time-off record with neither a structured lastChanged nor a
\* lastModified
Undated(x) ==
    /\ probe.kind = "time_off"
    /\ x.rec.status.shape # "dict" \/ x.rec.status.lastChanged = ABSENT
    /\ x.rec.lastModified = ABSENT

\* what C18 says of the document d built from side x
StructuredBuilt(x, d) ==
    /\ StructuredTimeOff(x) =>
          /\ d.exc = "none"
          /\ d.v.metadata.time_off_type = x.rec.type.name
          /\ d.v.metadata.status = x.rec.status.status
          /\ d.v.doc_updated_at = SomeT(DayOf(x.rec.status.lastChanged))
    /\ Undated(x) =>
          /\ d.exc = "none"
          /\ d.v.doc_updated_at = NoneT

(* C18: a time-off record with the type {name: T} and the status           *)
(* {status: S, lastChanged: L} is built into a document with metadata      *)
(* time_off_type T and status S whose update timestamp is the parse of L,  *)
(* whatever lastModified is; a record with neither a structured            *)
(* lastChanged nor a lastModified is built with no update timestamp.       *)
C18_StructuredTimeOff ==
    probe.stage = "output" =>
        /\ StructuredBuilt(probe.a, probe.da)
        /\ StructuredBuilt(probe.b, probe.db)

\* a record with type {name: Sick}, status {approved, day 2} and
\* lastModified day 1 got the timestamp of day 2, and a record with no
\* date at all got none
C18_Witness ==
    /\ probe.stage = "output"
    /\ StructuredTimeOff(probe.a)
    /\ probe.a.rec.lastModified = "2024-01-01"
    /\ probe.da.exc = "none"
    /\ probe.da.v.metadata.time_off_type = "Sick"
    /\ probe.da.v.metadata.status = "approved"
    /\ probe.da.v.doc_updated_at = SomeT(2)
    /\ Undated(probe.b)
    /\ probe.db.exc = "none"
    /\ probe.db.v.doc_updated_at = NoneT

\* the time t lies in the run's window: not before start, not before the
\* updated_since floor, not after end, each bound only if it is given
InWindow(t) ==
    /\ start.some => t >= start.t
    /\ cfg.updated_since \in YmdStrs => t >= DayOf(cfg.updated_since)
    /\ end.some => t <= end.t

\* the run's employee documents hold the document of the directory entry
YieldedEmployee(employee) ==
    \E n \in 1..Len(YieldedOf("employees")) :
        YieldedOf("employees")[n].id = "bamboohr_employee_" \o employee.id

(* C19: at the end of a run, a directory entry that passes the employee    *)
(* filter and whose detail lastChanged parses to t has its document        *)
(* yielded if and only if t is in the window (not before the later of      *)
(* start and the updated_since floor, not after end, bounds included); and *)
(* an entry that passes the filter and has no lastChanged, or whose detail *)
(* fetch failed, has its document yielded.  Runs in which a detail         *)
(* response is not a mapping are left out.                                 *)
C19_EmployeeWindow ==
    LET E == DirectoryEntries
    IN  pc = "done" /\ (\A id \in EmployeeIds : world.details[id].body.shape = "dict") =>
           \A k \in 1..Len(E) :
              LET details == fetch_employee_details(world, E[k].id).details
              IN  /\ Truthy(Get(E[k].id))
                  /\ details.shape = "dict"
                  /\ should_include_employee(cfg, E[k], details) = Ok(TRUE)
                  => /\ details.lastChanged \in IsoStrs =>
                           (YieldedEmployee(E[k]) <=> InWindow(DayOf(details.lastChanged)))
                     /\ ~Truthy(Get(details.lastChanged)) => YieldedEmployee(E[k])

\* the file documents yielded so far
FileDocs == YieldedOf("employee_files") \o YieldedOf("company_files")

\* the category is outside a non-empty file_categories list
OutsideCategories(category) ==
    cfg.file_categories # {} /\ category \notin cfg.file_categories

\* the time t is strictly earlier than the updated_since cutoff
BeforeCutoff(t) ==
    cfg.updated_since \in YmdStrs /\ t < DayOf(cfg.updated_since)

(* C20: in scope "filtered" the file filter lets through no file whose     *)
(* timestamp parses to a time strictly earlier than updated_since or whose *)
(* category is outside a non-empty file_categories list, and no document   *)
(* of such a file is yielded; with include_files off the file filter lets  *)
(* through nothing, no file document is yielded and no manifest or         *)
(* download request is made, in either scope.                              *)
C20_FilteredFiles ==
    /\ probe.stage = "output" /\ probe.kind = "file" /\ probe.result = Ok(TRUE) =>
          /\ cfg.include_files
          /\ cfg.indexing_scope = "filtered" =>
                /\ ~OutsideCategories(Get(probe.rec.category))
                /\ probe.rec.lastUpdated \in IsoStrs =>
                      ~BeforeCutoff(DayOf(probe.rec.lastUpdated))
    /\ cfg.indexing_scope = "filtered" =>
          \A n \in 1..Len(FileDocs) :
             /\ ~OutsideCategories(FileDocs[n].metadata.category)
             /\ FileDocs[n].doc_updated_at.some =>
                   ~BeforeCutoff(FileDocs[n].doc_updated_at.t)
    /\ ~cfg.include_files =>
          /\ FileDocs = <<>>
          /\ ManifestRequests = <<>>
          /\ RequestsAt("files/view") = {}
          /\ DownloadRequests = <<>>

\* in scope "filtered" with the cutoff 2024-01-02 the file filter was
\* called on a file of an allowed category created on 2024-01-01 and
\* returned false
C20_Witness ==
    /\ probe.stage = "output"
    /\ probe.kind = "file"
    /\ cfg.indexing_scope = "filtered"
    /\ cfg.include_files
    /\ cfg.updated_since = "2024-01-02"
    /\ cfg.file_categories = {"Contracts"}
    /\ probe.rec.category = "Contracts"
    /\ probe.rec.lastUpdated = "2024-01-01T00:00:00Z"
    /\ probe.result = Ok(FALSE)

\* the field of the record that holds its effective last-changed time: the
\* structured lastChanged, else lastModified, else created
Resolved(rec) ==
    IF rec.status.shape = "dict" /\ rec.status.lastChanged # ABSENT
    THEN rec.status.lastChanged
    ELSE IF Truthy(Get(rec.lastModified)) THEN rec.lastModified
    ELSE rec.created

\* the record's type is outside a non-empty time_off_types list
OutsideTypes(rec) ==
    /\ cfg.time_off_types # {}
    /\ (IF rec.type.shape = "dict" THEN rec.type.name ELSE rec.type.v)
          \notin cfg.time_off_types

(* C21: in scope "filtered" with include_time_off on and updated_since     *)
(* set, the time-off filter excludes a record if and only if its type is   *)
(* outside a non-empty time_off_types list or the first available of       *)
(* status.lastChanged, lastModified and created parses to a time strictly  *)
(* earlier than the cutoff; the fields after the first available one do    *)
(* not matter.                                                             *)
C21_TimeOffPriority ==
    /\ probe.stage = "output"
    /\ probe.kind = "time_off"
    /\ cfg.indexing_scope = "filtered"
    /\ cfg.include_time_off
    /\ Truthy(cfg.updated_since)
    => LET r == Resolved(probe.rec)
           early == r \in IsoStrs \cup YmdStrs /\ BeforeCutoff(DayOf(r))
       IN  probe.result = Ok(~(OutsideTypes(probe.rec) \/ early))

\* with the cutoff 2024-01-02 a record whose structured lastChanged is
\* 2024-01-03 and whose lastModified and created are 2024-01-01 was kept
C21_Witness ==
    /\ probe.stage = "output"
    /\ probe.kind = "time_off"
    /\ cfg.indexing_scope = "filtered"
    /\ cfg.include_time_off
    /\ cfg.updated_since = "2024-01-02"
    /\ cfg.time_off_types = {}
    /\ probe.rec.status.shape = "dict"
    /\ probe.rec.status.lastChanged = "2024-01-03T00:00:00Z"
    /\ probe.rec.lastModified = "2024-01-01"
    /\ probe.rec.created = "2024-01-01"
    /\ probe.result = Ok(TRUE)

\* the requests made up to position k of the trace since the last yield
\* before it (since the start of the run if there is none)
RequestsSinceYield(k) ==
    {j \in 1..k : /\ trace[j].ev = "request"
                  /\ \A m \in j..k : trace[m].ev # "yield"}

(* C22: before the first yield and between two consecutive yields of a run *)
(* the producer makes at most batch_size + 1 requests (one listing request *)
(* and one request per record of the batch), however many records the     *)
(* category holds.                                                         *)
C22_BoundedWork ==
    \A k \in 1..Len(trace) :
        Cardinality(RequestsSinceYield(k)) <= cfg.batch_size + 1

\* position j of the trace is the detail request of an employee
DetailRequestAt(j) ==
    trace[j] \in {Request("employees/" \o id) : id \in EmployeeIds}

(* C23: after every detail request for a directory entry a delay occurs    *)
(* before the next remote request of the run, whether or not the entry's   *)
(* document is then added to the output.                                   *)
C23_DelayAfterEachRecord ==
    \A j \in 1..Len(trace) : \A k \in (j + 1)..Len(trace) :
        DetailRequestAt(j) /\ trace[k].ev = "request" =>
            \E m \in (j + 1)..(k - 1) : trace[m].ev = "sleep"

\* the entries of the directory fetched for the name lookup, as received
LookupEntries ==
    IF world.directory2.http = "ok" /\ world.directory2.body.shape = "dict"
    THEN world.directory2.body.employees ELSE <<>>

\* the name a time-off document carries: that of the last lookup entry
\* with the record's employee id, or the record's own name
ExpectedName(rec) ==
    LET E == LookupEntries
        hits == {k \in 1..Len(E) : E[k].id = rec.employeeId}
        last == CHOOSE k \in hits : \A m \in hits : m <= k
        full == FullName(Str(GetD(E[last].firstName, "")),
                         Str(GetD(E[last].lastName, "")))
    IN  IF hits # {} /\ full # "" THEN full ELSE Str(GetD(rec.name, ""))

\* the record's document was yielded with the name nm
YieldedTimeOff(rec, nm) ==
    \E n \in 1..Len(YieldedOf("time_off")) :
        LET d == YieldedOf("time_off")[n]
        IN  /\ d.id = "bamboohr_time_off_" \o rec.id
            /\ \E l \in 1..Len(d.text) : d.text[l] = "Employee: " \o nm

(* C24: at the end of a run with include_time_off on, the time-off records *)
(* were requested once, and every record the time-off filter keeps has its *)
(* document among the yielded ones, whatever the employee phase yielded    *)
(* and whether or not the directory request of the name lookup succeeded;  *)
(* the document carries the name of the lookup directory's entry for the   *)
(* record's employee, taken from the unfiltered directory, or the record's *)
(* own name if there is no such entry.                                     *)
C24_TimeOffIndependent ==
    LET T == TimeOffRecords
    IN  pc = "done" /\ cfg.include_time_off =>
           /\ RequestCount("time_off/requests") = 1
           /\ \A k \in 1..Len(T) :
                 should_include_time_off(cfg, T[k]) = Ok(TRUE) =>
                    YieldedTimeOff(T[k], ExpectedName(T[k]))

\* the directory entry has an id and a detail whose lastChanged parses to a
\* time strictly earlier than the updated_since cutoff
ChangedBeforeCutoff(employee) ==
    LET details == fetch_employee_details(world, employee.id).details
    IN  /\ Truthy(Get(employee.id))
        /\ details.shape = "dict"
        /\ details.lastChanged \in IsoStrs
        /\ BeforeCutoff(DayOf(details.lastChanged))

\* every time-off record of the run can be built
Buildable ==
    \A k \in 1..Len(TimeOffRecords) :
        time_off_to_document(cfg.company_name, TimeOffRecords[k], NULL).exc = "none"

(* C25: in scope "everything" with updated_since set, a directory entry    *)
(* whose lastChanged parses to a time strictly earlier than updated_since  *)
(* is never yielded and never has its file manifest requested; the file    *)
(* filter and the time-off filter return true whenever their toggle is on, *)
(* and at the end of a run in which every time-off record can be built     *)
(* every time-off record is yielded.                                       *)
C25_FloorOnEmployeesOnly ==
    cfg.indexing_scope = "everything" /\ Truthy(cfg.updated_since) =>
        /\ \A k \in 1..Len(DirectoryEntries) :
              ChangedBeforeCutoff(DirectoryEntries[k]) =>
                 /\ ~YieldedEmployee(DirectoryEntries[k])
                 /\ RequestCount("employees/" \o DirectoryEntries[k].id
                                              \o "/files/view") = 0
        /\ probe.stage = "output" /\ probe.kind = "file" /\ cfg.include_files
              => probe.result = Ok(TRUE)
        /\ probe.stage = "output" /\ probe.kind = "time_off" /\ cfg.include_time_off
              => probe.result = Ok(TRUE)
        /\ pc = "done" /\ cfg.include_time_off /\ Buildable =>
              \A k \in 1..Len(TimeOffRecords) :
                 YieldedTimeOff(TimeOffRecords[k], ExpectedName(TimeOffRecords[k]))

\* a run in scope "everything" with the cutoff 2024-01-02 ended having
\* yielded employee 2, changed on 2024-01-02, and not employee 1, changed
\* on 2024-01-01
C25_Witness ==
    /\ pc = "done"
    /\ cfg.indexing_scope = "everything"
    /\ cfg.updated_since = "2024-01-02"
    /\ ~start.some
    /\ ChangedBeforeCutoff(EmpA)
    /\ ~YieldedEmployee(EmpA)
    /\ YieldedEmployee(EmpB)

====
